---- MODULE Spec2Model ----
(***************************************************************************)
(* Verification model of the Neutron language front end:                   *)
(*   - TypeChecker (src/server/typeChecker.js): the single-pass walk that  *)
(*     keeps symbolTable / staticVariables / assignedVariables and pushes  *)
(*     diagnostics into the caller's errors array;                         *)
(*   - NeutronParser (src/server/parser.js): tokenize, the statement       *)
(*     parsers with their error recovery, and parse().                     *)
(* JavaScript values are modelled as follows: an AST node is a record with *)
(* the fields the parser gives it; null is the record Null; a string is a  *)
(* sequence of one-character strings where the code looks inside it        *)
(* (source text, token values) and a TLA+ string where it only compares    *)
(* it (node types, type names); a Map is a function whose domain is the    *)
(* set of its keys; a Set is a set; an array is a sequence.                *)
(***************************************************************************)
EXTENDS Integers, Sequences, FiniteSets, TLC

\* ------------------------------------------------------------------------
\* Bounds of the model (not program constants)
\* ------------------------------------------------------------------------
\* number of top-level statements of a checked document
MaxBody == 3
\* number of check() calls made on one TypeChecker instance
MaxChecks == 2
\* number of top-level statements of a document checked by a reused instance
MaxReuseBody == 2
\* width of one source line of a checked document (one statement per line)
LineLen == 6
\* number of snippets that make up a parsed text
MaxSnippets == 2
\* number of parse() calls made on one NeutronParser instance
MaxParses == 3

\* number of characters of a text given to tokenize()
MaxChars == 4
\* the largest number of conditions of an else-if chain
MaxChain == 3
\* number of messages of the client the server handles after initialize
MaxMessages == 4

\* ------------------------------------------------------------------------
\* JavaScript values
\* ------------------------------------------------------------------------
Null == [type |-> "Null"]

IsNull(v) == v = Null

\* the seven type names of the language (parser.js isTypeKeyword)
Types == {"int", "float", "string", "bool", "array", "object", "any"}

\* variable names used in the checked documents
Names == {"x", "y"}

\* new Map()
EmptyMap == [k \in {} |-> "any"]

\* Map.prototype.has / get / set
MapHas(m, k) == k \in DOMAIN m

MapGet(m, k) == IF k \in DOMAIN m THEN m[k] ELSE "undefined"

MapSet(m, k, v) == [j \in (DOMAIN m) \cup {k} |-> IF j = k THEN v ELSE m[j]]

\* NoPosition: the message of the exception names no position
NoPosition == 0 - 1

\* an exception: new Error(`${text} '${value}' at position ${at}`), the parts
\* a message does not have being "" and NoPosition
Message(text, value, at) == [type |-> "Error", text |-> text, value |-> value, at |-> at]

\* the TypeError of reading property prop of null
NullPropertyError(prop) ==
    Message("TypeError: Cannot read properties of null", prop, NoPosition)

\* ------------------------------------------------------------------------
\* AST nodes, with the fields parser.js gives them
\* ------------------------------------------------------------------------
\* Literal: valueType is typeof node.value ("number", "string", "boolean")
\* or "null" for the value null; raw is the token text
Literal(valueType, raw, s, e) ==
    [type |-> "Literal", valueType |-> valueType, raw |-> raw, start |-> s, end |-> e]

Identifier(name, s, e) == [type |-> "Identifier", name |-> name, start |-> s, end |-> e]

BinaryExpression(op, l, r) ==
    [type |-> "BinaryExpression", operator |-> op, left |-> l, right |-> r,
     start |-> l.start, end |-> r.end]

LogicalExpression(op, l, r) ==
    [type |-> "LogicalExpression", operator |-> op, left |-> l, right |-> r,
     start |-> l.start, end |-> r.end]

UnaryExpression(arg, s) ==
    [type |-> "UnaryExpression", operator |-> "not", argument |-> arg,
     start |-> s, end |-> arg.end]

VariableDeclaration(declaredType, name, init, isStatic, s, e) ==
    [type |-> "VariableDeclaration", declaredType |-> declaredType, name |-> name,
     init |-> init, isStatic |-> isStatic, start |-> s, end |-> e]

AssignmentExpression(left, right, e) ==
    [type |-> "AssignmentExpression", operator |-> "=", left |-> left, right |-> right,
     start |-> left.start, end |-> e]

BlockStatement(body) == [type |-> "BlockStatement", body |-> body]

FunctionDeclaration(name, params, body, s, e) ==
    [type |-> "FunctionDeclaration", id |-> Identifier(name, s + 1, s + 2),
     params |-> params, body |-> body, start |-> s, end |-> e]

WhileStatement(test, body, s, e) ==
    [type |-> "WhileStatement", test |-> test, body |-> body, start |-> s, end |-> e]

IfStatement(test, consequent, alternate, s, e) ==
    [type |-> "IfStatement", test |-> test, consequent |-> consequent,
     alternate |-> alternate, start |-> s, end |-> e]

\* ------------------------------------------------------------------------
\* TypeChecker (src/server/typeChecker.js)
\* ------------------------------------------------------------------------
VARIABLES
    chkPc,              \* "idle": no check() call in progress; "walk": inside the loop of check()
    symbolTable,        \* this.symbolTable
    staticVariables,    \* this.staticVariables
    assignedVariables,  \* this.assignedVariables
    errors,             \* this.errors, the array the caller passed to check()
    bodyLen,            \* ast.body.length of the document being checked
    idx,                \* number of statements of ast.body already visited
    lastNode,           \* the statement of ast.body visited by the last step (Null: none)
    pre,                \* the three structures and errors.length when lastNode was entered
    checkCalls,         \* number of check() calls made on this instance
    usedAtEntry         \* whether symbolTable held an entry when the current check() was entered

checkerVars == <<chkPc, symbolTable, staticVariables, assignedVariables, errors,
                 bodyLen, idx, lastNode, pre, checkCalls, usedAtEntry>>

\* one call of isCompatibleType
VARIABLES
    cmpExpected,        \* the argument `expected`
    cmpActual,          \* the argument `actual`
    cmpDone,            \* whether isCompatibleType(expected, actual) has been called
    cmpResult,          \* the value it returned
    cmpChecked,         \* whether the document `var <expected> y; y = <actual>;` has been checked
    cmpErrors           \* the numbers of diagnostics check() gave for its documents

compatVars == <<cmpExpected, cmpActual, cmpDone, cmpResult, cmpChecked, cmpErrors>>

\* NeutronParser (src/server/parser.js)
VARIABLES
    parsePc,            \* "idle": no parse() call in progress; "loop": inside the loop of parse()
    parseArg,           \* the text given to the current (or last) parse() call
    input,              \* this.input, set by tokenize
    tokens,             \* this.tokens
    position,           \* this.position
    parserErrors,       \* this.errors of the parser
    statements,         \* the local array `statements` of parse()
    result,             \* what the last parse() call returned or threw (Null: none yet)
    lastStmt,           \* what the last parseStatement call of the loop of parse() did
    parseCalls          \* number of parse() calls made on this instance

parserVars == <<parsePc, parseArg, input, tokens, position, parserErrors, statements,
                result, lastStmt, parseCalls>>

\* the state of the language server (src/server/parser.js, from line 1755)
\* VALIDATION_DELAY_MS, in ticks of the clock of the model (150 ms each)
VALIDATION_DELAY_TICKS == 2

\* the URIs of the documents of the client
URIs == {"a.nt", "b.nt"}

VARIABLES
    serverReady,       \* onInitialize has run
    hasConfigurationCapability, \* set by onInitialize
    openDocuments,      \* the URIs of documents.all()
    validationDelays,   \* Map: URI -> the timer setTimeout returned
    timers,             \* the pending timers: the URI of the callback, ticks left
    documentSettings,   \* Map: URI -> the promise of its settings
    waiting,            \* pending promises -> the validateTextDocument calls awaiting each
    resolved,           \* the promises that have been resolved
    parseCache,         \* the URIs that are keys of parseCache
    serial,             \* number of timers and promises created so far
    changes,            \* number of content changes handled so far
    configChanges,      \* number of configuration changes handled so far
    closes,             \* number of documents closed so far
    sinceChange,        \* URI -> ticks since its last content change, up to the delay
    bursts,             \* URI -> number of bursts of content changes begun
    timerCalls,         \* URI -> number of validateTextDocument calls made by timers
    cancelledByClose,   \* URI -> number of timers cleared by onDidClose
    lastFire,           \* the last timer callback: its URI, the ticks since the last change
    published,          \* the URIs that got diagnostics
    publishedClosed     \* the URIs that got diagnostics while they were not open

serverVars == <<serverReady, hasConfigurationCapability, openDocuments, validationDelays,
                timers,
                documentSettings, waiting, resolved, parseCache, serial, changes,
                configChanges, closes, sinceChange, bursts, timerCalls, cancelledByClose,
                lastFire, published, publishedClosed>>

\* document.getText(): the text that was parsed, if the checked AST comes
\* from parse(); otherwise the checked document holds one statement per line,
\* each line LineLen characters wide, the last one being the line break
DocLength == IF parseArg # <<>> THEN Len(parseArg) ELSE bodyLen * LineLen

DocChar(i) ==
    IF parseArg # <<>> THEN parseArg[i + 1]
    ELSE IF i % LineLen = LineLen - 1 THEN "\n" ELSE "a"

RECURSIVE PositionScan(_, _, _, _)
PositionScan(i, index, line, char) ==
    IF i < index /\ i < DocLength
    THEN IF DocChar(i) = "\n"
         THEN PositionScan(i + 1, index, line + 1, 0)
         ELSE PositionScan(i + 1, index, line, char + 1)
    ELSE [line |-> line, character |-> char]

getPositionFromIndex(index) == PositionScan(0, index, 0, 0)

\* the object pushed into this.errors
Diagnostic(s, e, message) ==
    [severity |-> 1,
     range |-> [start |-> getPositionFromIndex(s), end |-> getPositionFromIndex(e)],
     message |-> message]

\* the four message templates, as the pieces the template literal joins
RedeclaredMessage(name) == <<"Variable '", name, "' has already been declared">>

DeclMismatchMessage(expected, actual, name) ==
    <<"Type mismatch: expected ", expected, " but got ", actual, " for variable '", name, "'">>

ReassignMessage(name) ==
    <<"Cannot reassign static variable '", name, "' - it has already been assigned">>

AssignMismatchMessage(expected, actual, name) ==
    <<"Type mismatch: expected ", expected, " but got ", actual, " when assigning to '", name, "'">>

\* raw.includes('.')
RawHasDot(raw) == \E i \in 1..Len(raw) : raw[i] = "."

\* Number.isInteger(Number(raw)) for a token of digits and dots
NumberIsInteger(raw) ==
    \A i \in 1..Len(raw) : \A j \in 1..Len(raw) :
        (raw[i] = "." /\ j > i) => raw[j] = "0"

\* raw.startsWith('"') || raw.startsWith("'")
RawIsQuoted(raw) == Len(raw) > 0 /\ raw[1] \in {"\"", "'"}

ComparisonOperators == {"==", "!=", "<", "<=", ">", ">=", "and", "or"}

ArithmeticOperators == {"+", "-", "*", "/", "%"}

RECURSIVE inferType(_, _)
inferType_nilLiteral(node, table) ==
    IF IsNull(node) THEN "any"
    ELSE CASE node.type = "Literal" ->
                 IF node.valueType = "number"
                 THEN IF RawHasDot(node.raw) THEN "float"
                      ELSE IF NumberIsInteger(node.raw) THEN "int" ELSE "float"
                 ELSE IF node.valueType = "string" /\ RawIsQuoted(node.raw) THEN "string"
                 ELSE IF node.valueType = "boolean" THEN "bool"
                 ELSE "nil"
           [] node.type = "ArrayExpression" -> "array"
           [] node.type = "ObjectExpression" -> "object"
           [] node.type = "Identifier" ->
                 IF MapHas(table, node.name) THEN MapGet(table, node.name) ELSE "any"
           [] node.type \in {"BinaryExpression", "LogicalExpression"} ->
                 IF node.operator \in ComparisonOperators THEN "bool"
                 ELSE IF node.operator \in ArithmeticOperators
                 THEN IF inferType(node.left, table) = "int"
                         /\ inferType(node.right, table) = "int"
                         /\ node.operator # "/"
                      THEN "int"
                      ELSE "float"
                 ELSE "any"
           [] node.type = "UnaryExpression" ->
                 IF node.operator = "not" THEN "bool" ELSE inferType(node.argument, table)
           [] node.type = "CallExpression" -> "any"
           [] node.type = "MemberExpression" -> "any"
           [] OTHER -> "any"

inferType_intDivision(node, table) ==
    IF IsNull(node) THEN "any"
    ELSE CASE node.type = "Literal" ->
                 IF node.valueType = "number"
                 THEN IF RawHasDot(node.raw) THEN "float"
                      ELSE IF NumberIsInteger(node.raw) THEN "int" ELSE "float"
                 ELSE IF node.valueType = "string" /\ RawIsQuoted(node.raw) THEN "string"
                 ELSE IF node.valueType = "boolean" THEN "bool"
                 ELSE "any"
           [] node.type = "ArrayExpression" -> "array"
           [] node.type = "ObjectExpression" -> "object"
           [] node.type = "Identifier" ->
                 IF MapHas(table, node.name) THEN MapGet(table, node.name) ELSE "any"
           [] node.type \in {"BinaryExpression", "LogicalExpression"} ->
                 IF node.operator \in ComparisonOperators THEN "bool"
                 ELSE IF node.operator \in ArithmeticOperators
                 THEN IF inferType(node.left, table) = "int"
                         /\ inferType(node.right, table) = "int"
                      THEN "int"
                      ELSE "float"
                 ELSE "any"
           [] node.type = "UnaryExpression" ->
                 IF node.operator = "not" THEN "bool" ELSE inferType(node.argument, table)
           [] node.type = "CallExpression" -> "any"
           [] node.type = "MemberExpression" -> "any"
           [] OTHER -> "any"

inferType(node, table) ==
    IF IsNull(node) THEN "any"
    ELSE CASE node.type = "Literal" ->
                 IF node.valueType = "number"
                 THEN IF RawHasDot(node.raw) THEN "float"
                      ELSE IF NumberIsInteger(node.raw) THEN "int" ELSE "float"
                 ELSE IF node.valueType = "string" /\ RawIsQuoted(node.raw) THEN "string"
                 ELSE IF node.valueType = "boolean" THEN "bool"
                 ELSE "any"
           [] node.type = "ArrayExpression" -> "array"
           [] node.type = "ObjectExpression" -> "object"
           [] node.type = "Identifier" ->
                 IF MapHas(table, node.name) THEN MapGet(table, node.name) ELSE "any"
           [] node.type \in {"BinaryExpression", "LogicalExpression"} ->
                 IF node.operator \in ComparisonOperators THEN "bool"
                 ELSE IF node.operator \in ArithmeticOperators
                 THEN IF inferType(node.left, table) = "int"
                         /\ inferType(node.right, table) = "int"
                         /\ node.operator # "/"
                      THEN "int"
                      ELSE "float"
                 ELSE "any"
           [] node.type = "UnaryExpression" ->
                 IF node.operator = "not" THEN "bool" ELSE inferType(node.argument, table)
           [] node.type = "CallExpression" -> "any"
           [] node.type = "MemberExpression" -> "any"
           [] OTHER -> "any"

isCompatibleType_symmetric(expected, actual) ==
    \/ expected = actual
    \/ expected = "any" \/ actual = "any"
    \/ {expected, actual} = {"float", "int"}
    \/ actual = "nil"

isCompatibleType(expected, actual) ==
    \/ expected = actual
    \/ expected = "any" \/ actual = "any"
    \/ (expected = "float" /\ actual = "int")
    \/ actual = "nil"

\* the checker state a handler reads and returns; thrown is the exception
\* that is unwinding the walk, Null if there is none
CheckerState(table, statics, assigned, errs) ==
    [symbolTable |-> table, staticVariables |-> statics,
     assignedVariables |-> assigned, errors |-> errs, thrown |-> Null]

pushError(st, diag) == [st EXCEPT !.errors = Append(@, diag)]

\* the object-valued fields of a node in the order the parser writes them,
\* arrays flattened: what checkChildren passes to checkNode.  A field that
\* holds null is not passed (value && typeof value === 'object'); a null
\* item of an array is.  A string item (a function parameter) and a token
\* (a Property key) have no object-valued field, so visiting them does
\* nothing and they are left out.
ChildrenOf(node) ==
    LET objects(values) == SelectSeq(values, LAMBDA v : ~IsNull(v)) IN
    CASE node.type = "BlockStatement" -> node.body
      [] node.type = "FunctionDeclaration" -> objects(<<node.id, node.body>>)
      [] node.type = "ClassDeclaration" -> objects(<<node.id, node.body>>)
      [] node.type = "LogicalExpression" -> objects(<<node.left, node.right>>)
      [] node.type = "UnaryExpression" -> objects(<<node.argument>>)
      [] node.type = "MemberExpression" -> objects(<<node.object, node.property>>)
      [] node.type = "ArrayExpression" -> node.elements
      [] node.type = "ObjectExpression" -> node.properties
      [] node.type = "Property" -> objects(<<node.value>>)
      [] OTHER -> <<>>

RECURSIVE checkNode(_, _)
RECURSIVE checkList(_, _)

\* for (const item of list) this.checkNode(item, document)
checkList(list, st) ==
    IF list = <<>> THEN st ELSE checkList(Tail(list), checkNode(Head(list), st))

checkChildren(node, st) == IF IsNull(node) THEN st ELSE checkList(ChildrenOf(node), st)

\* if (value) this.checkNode(value, document)
checkIfPresent(value, st) == IF IsNull(value) THEN st ELSE checkNode(value, st)

checkVariableDeclaration_noRedeclCheck(node, st) ==
    LET variableName == node.name
        st1 == IF node.isStatic
               THEN [st EXCEPT !.staticVariables = @ \cup {variableName}]
               ELSE st
    IN IF node.declaredType = "null"
       THEN LET st2 == [st1 EXCEPT !.symbolTable = MapSet(@, node.name, "any"),
                                   !.assignedVariables =
                                        IF ~IsNull(node.init) THEN @ \cup {node.name} ELSE @]
            IN  IF ~IsNull(node.init) THEN checkNode(node.init, st2) ELSE st2
       ELSE [st1 EXCEPT !.symbolTable = MapSet(@, variableName, node.declaredType)]

checkVariableDeclaration_recordRejected(node, st) ==
    LET variableName == node.name IN
    IF MapHas(st.symbolTable, variableName)
    THEN pushError(st, Diagnostic(node.start, node.end, RedeclaredMessage(variableName)))
    ELSE
    LET st1 == IF node.isStatic
               THEN [st EXCEPT !.staticVariables = @ \cup {variableName}]
               ELSE st
    IN
    IF node.declaredType = "null"
    THEN LET st2 == IF node.name # ""
                    THEN [st1 EXCEPT !.symbolTable = MapSet(@, node.name, "any"),
                                     !.assignedVariables =
                                         IF ~IsNull(node.init) THEN @ \cup {node.name} ELSE @]
                    ELSE st1
         IN  IF ~IsNull(node.init) THEN checkNode(node.init, st2) ELSE st2
    ELSE
    LET declaredType == node.declaredType
        recorded == [st1 EXCEPT !.symbolTable = MapSet(@, variableName, declaredType)]
    IN
    IF ~IsNull(node.init)
    THEN LET actualType == inferType(node.init, st1.symbolTable) IN
         IF ~isCompatibleType(declaredType, actualType)
         THEN pushError(recorded, Diagnostic(node.init.start, node.init.end,
                                DeclMismatchMessage(declaredType, actualType, variableName)))
         ELSE [recorded EXCEPT !.assignedVariables = @ \cup {variableName}]
    ELSE recorded

checkVariableDeclaration(node, st) ==
    LET variableName == node.name IN
    IF MapHas(st.symbolTable, variableName)
    THEN pushError(st, Diagnostic(node.start, node.end, RedeclaredMessage(variableName)))
    ELSE
    LET st1 == IF node.isStatic
               THEN [st EXCEPT !.staticVariables = @ \cup {variableName}]
               ELSE st
    IN
    IF node.declaredType = "null"
    THEN LET st2 == IF node.name # ""
                    THEN [st1 EXCEPT !.symbolTable = MapSet(@, node.name, "any"),
                                     !.assignedVariables =
                                         IF ~IsNull(node.init) THEN @ \cup {node.name} ELSE @]
                    ELSE st1
         IN  IF ~IsNull(node.init) THEN checkNode(node.init, st2) ELSE st2
    ELSE
    LET declaredType == node.declaredType IN
    IF ~IsNull(node.init)
    THEN LET actualType == inferType(node.init, st1.symbolTable) IN
         IF ~isCompatibleType(declaredType, actualType)
         THEN pushError(st1, Diagnostic(node.init.start, node.init.end,
                                DeclMismatchMessage(declaredType, actualType, variableName)))
         ELSE [st1 EXCEPT !.symbolTable = MapSet(@, variableName, declaredType),
                          !.assignedVariables = @ \cup {variableName}]
    ELSE [st1 EXCEPT !.symbolTable = MapSet(@, variableName, declaredType)]

checkAssignedType_swapped(node, st) ==
    LET varName == node.left.name
        declaredType == MapGet(st.symbolTable, varName)
        st1 == IF declaredType # "undefined" /\ declaredType # "any"
               THEN LET actualType == inferType(node.right, st.symbolTable) IN
                    IF ~isCompatibleType(actualType, declaredType)
                    THEN pushError(st, Diagnostic(node.right.start, node.right.end,
                                     AssignMismatchMessage(declaredType, actualType, varName)))
                    ELSE st
               ELSE st
    IN checkNode(node.right, st1)

\* the part of checkAssignmentExpression after the static-variable test
checkAssignedType(node, st) ==
    LET varName == node.left.name
        declaredType == MapGet(st.symbolTable, varName)
        st1 == IF declaredType # "undefined" /\ declaredType # "any"
               THEN LET actualType == inferType(node.right, st.symbolTable) IN
                    IF ~isCompatibleType(declaredType, actualType)
                    THEN pushError(st, Diagnostic(node.right.start, node.right.end,
                                     AssignMismatchMessage(declaredType, actualType, varName)))
                    ELSE st
               ELSE st
    IN checkNode(node.right, st1)

checkAssignmentExpression_anyAssigned(node, st) ==
    IF ~IsNull(node.left) /\ node.left.type = "Identifier" /\ ~IsNull(node.right)
    THEN LET varName == node.left.name IN
         IF varName \in st.assignedVariables
         THEN pushError(st, Diagnostic(node.left.start, node.right.end,
                                       ReassignMessage(varName)))
         ELSE checkAssignedType(node,
                  [st EXCEPT !.assignedVariables = @ \cup {varName}])
    ELSE st

checkAssignmentExpression_noReturn(node, st) ==
    IF ~IsNull(node.left) /\ node.left.type = "Identifier" /\ ~IsNull(node.right)
    THEN LET varName == node.left.name IN
         IF varName \in st.staticVariables /\ varName \in st.assignedVariables
         THEN checkAssignedType(node,
                  pushError(st, Diagnostic(node.left.start, node.right.end,
                                           ReassignMessage(varName))))
         ELSE checkAssignedType(node, st)
    ELSE st

checkAssignmentExpression(node, st) ==
    IF ~IsNull(node.left) /\ node.left.type = "Identifier" /\ ~IsNull(node.right)
    THEN LET varName == node.left.name IN
         IF varName \in st.staticVariables
         THEN IF varName \in st.assignedVariables
              THEN pushError(st, Diagnostic(node.left.start, node.right.end,
                                            ReassignMessage(varName)))
              ELSE checkAssignedType(node,
                       [st EXCEPT !.assignedVariables = @ \cup {varName}])
         ELSE checkAssignedType(node, st)
    ELSE st

\* checkBinaryExpression: left, then right
checkBinaryExpression(node, st) == checkIfPresent(node.right, checkIfPresent(node.left, st))

\* checkWhileStatement and checkDoWhileStatement: test, then body
checkWhileStatement(node, st) == checkIfPresent(node.body, checkIfPresent(node.test, st))

checkIfStatement(node, st) ==
    checkIfPresent(node.alternate,
        checkIfPresent(node.consequent, checkIfPresent(node.test, st)))

checkForStatement(node, st) ==
    checkIfPresent(node.body,
        checkIfPresent(node.update,
            checkIfPresent(node.test, checkIfPresent(node.init, st))))

checkCallExpression(node, st) ==
    checkList(node.arguments, checkIfPresent(node.callee, st))

checkMatchStatement(node, st) ==
    checkList(node.cases, checkIfPresent(node.discriminant, st))

checkTryStatement(node, st) ==
    checkIfPresent(node.finalizer,
        checkList(node.handlers, checkIfPresent(node.block, st)))

\* the body is walked, and walked again once the parameter is entered
checkCatchClause(node, st) ==
    LET st1 == checkIfPresent(node.body, st) IN
    IF ~IsNull(st1.thrown) THEN st1
    ELSE IF ~IsNull(node.param) /\ node.param.name # ""
    THEN checkNode(node.body,
             [st1 EXCEPT !.symbolTable = MapSet(@, node.param.name, "any")])
    ELSE st1

checkRetryStatement(node, st) ==
    checkIfPresent(node.handler,
        checkIfPresent(node.body, checkIfPresent(node.count, st)))

checkNode_noNullGuard(node, st) ==
    IF ~IsNull(st.thrown) THEN st
    ELSE IF IsNull(node) THEN [st EXCEPT !.thrown = NullPropertyError("type")]
    ELSE CASE node.type = "VariableDeclaration" -> checkVariableDeclaration(node, st)
           [] node.type = "AssignmentExpression" -> checkAssignmentExpression(node, st)
           [] node.type = "BinaryExpression" -> checkBinaryExpression(node, st)
           [] node.type = "IfStatement" -> checkIfStatement(node, st)
           [] node.type = "WhileStatement" -> checkWhileStatement(node, st)
           [] node.type = "DoWhileStatement" -> checkWhileStatement(node, st)
           [] node.type = "ForStatement" -> checkForStatement(node, st)
           [] node.type = "ExpressionStatement" -> checkNode(node.expression, st)
           [] node.type = "CallExpression" -> checkCallExpression(node, st)
           [] node.type = "ReturnStatement" -> checkNode(node.argument, st)
           [] node.type = "MatchStatement" -> checkMatchStatement(node, st)
           [] node.type = "MatchCase" ->
                  checkNode(node.consequent, checkNode(node.test, st))
           [] node.type = "MatchDefault" -> checkNode(node.consequent, st)
           [] node.type = "TryStatement" -> checkTryStatement(node, st)
           [] node.type = "CatchClause" -> checkCatchClause(node, st)
           [] node.type = "FinallyClause" -> checkNode(node.body, st)
           [] node.type = "RetryStatement" -> checkRetryStatement(node, st)
           [] node.type = "ThrowStatement" -> checkNode(node.argument, st)
           [] OTHER -> checkChildren(node, st)

\* a call made while an exception unwinds the walk is not made at all
checkNode(node, st) ==
    IF ~IsNull(st.thrown) THEN st
    ELSE IF IsNull(node) THEN st
    ELSE CASE node.type = "VariableDeclaration" -> checkVariableDeclaration(node, st)
           [] node.type = "AssignmentExpression" -> checkAssignmentExpression(node, st)
           [] node.type = "BinaryExpression" -> checkBinaryExpression(node, st)
           [] node.type = "IfStatement" -> checkIfStatement(node, st)
           [] node.type = "WhileStatement" -> checkWhileStatement(node, st)
           [] node.type = "DoWhileStatement" -> checkWhileStatement(node, st)
           [] node.type = "ForStatement" -> checkForStatement(node, st)
           [] node.type = "ExpressionStatement" -> checkNode(node.expression, st)
           [] node.type = "CallExpression" -> checkCallExpression(node, st)
           [] node.type = "ReturnStatement" -> checkNode(node.argument, st)
           [] node.type = "MatchStatement" -> checkMatchStatement(node, st)
           [] node.type = "MatchCase" ->
                  checkNode(node.consequent, checkNode(node.test, st))
           [] node.type = "MatchDefault" -> checkNode(node.consequent, st)
           [] node.type = "TryStatement" -> checkTryStatement(node, st)
           [] node.type = "CatchClause" -> checkCatchClause(node, st)
           [] node.type = "FinallyClause" -> checkNode(node.body, st)
           [] node.type = "RetryStatement" -> checkRetryStatement(node, st)
           [] node.type = "ThrowStatement" -> checkNode(node.argument, st)
           [] OTHER -> checkChildren(node, st)

\* ------------------------------------------------------------------------
\* The documents given to check(): statement idx of ast.body sits on line idx
\* ------------------------------------------------------------------------
\* initializers and right-hand sides at offsets s..e: an int, a float, a
\* string and a nil literal
IntLiteral(s, e) == Literal("number", <<"5">>, s, e)

FloatLiteral(s, e) == Literal("number", <<"1", ".", "5">>, s, e)

StringLiteral(s, e) == Literal("string", <<"\"", "a", "\"">>, s, e)

NilLiteral(s, e) == Literal("null", <<"n", "i", "l">>, s, e)

\* <<declared type, initializer>> of the declarations of the documents
DeclShapes(s, e) ==
    {<<"null", Null>>, <<"null", IntLiteral(s, e)>>,
     <<"int", Null>>, <<"int", IntLiteral(s, e)>>, <<"int", StringLiteral(s, e)>>,
     <<"float", IntLiteral(s, e)>>}

CheckedDeclarations(i) ==
    {VariableDeclaration(d[1], "x", d[2], st, i * LineLen, i * LineLen + LineLen - 1) :
        d \in DeclShapes(i * LineLen + 2, i * LineLen + LineLen - 2), st \in BOOLEAN}

Assignment(n, r, i) ==
    AssignmentExpression(Identifier(n, i * LineLen, i * LineLen + 1), r,
                         i * LineLen + LineLen - 1)

CheckedAssignments(i) ==
    {Assignment("x", r, i) :
        r \in {IntLiteral(i * LineLen + 2, i * LineLen + LineLen - 2),
               FloatLiteral(i * LineLen + 2, i * LineLen + LineLen - 2),
               StringLiteral(i * LineLen + 2, i * LineLen + LineLen - 2),
               NilLiteral(i * LineLen + 2, i * LineLen + LineLen - 2),
               Identifier("x", i * LineLen + 2, i * LineLen + LineLen - 2)}}
    \cup {Assignment("y", StringLiteral(i * LineLen + 2, i * LineLen + LineLen - 2), i)}

\* a declaration inside a function body, one inside a loop body, and two
\* declarations of one name in the two blocks of an if statement
NestedStatements(i) ==
    {FunctionDeclaration("f", <<>>,
        BlockStatement(<<VariableDeclaration("null", "x",
                            IntLiteral(i * LineLen + 2, i * LineLen + LineLen - 2), FALSE,
                            i * LineLen + 1, i * LineLen + LineLen - 1)>>),
        i * LineLen, i * LineLen + LineLen - 1),
     WhileStatement(Literal("boolean", <<"t", "r", "u", "e">>, i * LineLen, i * LineLen + 1),
        BlockStatement(<<VariableDeclaration("int", "x", Null, TRUE,
                            i * LineLen + 1, i * LineLen + LineLen - 1)>>),
        i * LineLen, i * LineLen + LineLen - 1),
     IfStatement(Literal("boolean", <<"t", "r", "u", "e">>, i * LineLen, i * LineLen + 1),
        BlockStatement(<<VariableDeclaration("null", "x", Null, FALSE,
                            i * LineLen + 1, i * LineLen + 2)>>),
        BlockStatement(<<VariableDeclaration("int", "x", Null, TRUE,
                            i * LineLen + 3, i * LineLen + LineLen - 1)>>),
        i * LineLen, i * LineLen + LineLen - 1)}

TopNodes(i) == CheckedDeclarations(i) \cup CheckedAssignments(i) \cup NestedStatements(i)

\* ------------------------------------------------------------------------
\* check(ast, document, errors)
\* ------------------------------------------------------------------------
\* what the walk had built when a statement of ast.body was entered
EntryState(table, statics, assigned, errs) ==
    [symbolTable |-> table, staticVariables |-> statics,
     assignedVariables |-> assigned, nErrors |-> Len(errs)]

CheckInit ==
    /\ chkPc = "idle"
    /\ symbolTable = EmptyMap
    /\ staticVariables = {}
    /\ assignedVariables = {}
    /\ errors = <<>>
    /\ bodyLen = 0
    /\ idx = 0
    /\ lastNode = Null
    /\ pre = EntryState(EmptyMap, {}, {}, <<>>)
    /\ checkCalls = 0
    /\ usedAtEntry = FALSE

\* entry of check(): the caller passes a new errors array and the three
\* structures are replaced by new ones.  The caller makes at most maxCalls
\* calls on the instance, each with a document of at most maxLen statements.
check_noReset(maxCalls, maxLen) ==
    /\ chkPc = "idle"
    /\ checkCalls < maxCalls
    /\ \E n \in 0..maxLen : bodyLen' = n
    /\ chkPc' = "walk"
    /\ errors' = <<>>
    /\ idx' = 0
    /\ lastNode' = Null
    /\ pre' = EntryState(symbolTable, staticVariables, assignedVariables, <<>>)
    /\ checkCalls' = checkCalls + 1
    /\ usedAtEntry' = (symbolTable # EmptyMap)
    /\ UNCHANGED <<symbolTable, staticVariables, assignedVariables>>

check(maxCalls, maxLen) ==
    /\ chkPc = "idle"
    /\ checkCalls < maxCalls
    /\ \E n \in 0..maxLen : bodyLen' = n
    /\ chkPc' = "walk"
    /\ errors' = <<>>
    /\ symbolTable' = EmptyMap
    /\ staticVariables' = {}
    /\ assignedVariables' = {}
    /\ idx' = 0
    /\ lastNode' = Null
    /\ pre' = EntryState(EmptyMap, {}, {}, <<>>)
    /\ checkCalls' = checkCalls + 1
    /\ usedAtEntry' = (symbolTable # EmptyMap)

\* one iteration of `for (const node of ast.body) this.checkNode(node, document)`
checkBodyNode ==
    /\ chkPc = "walk"
    /\ idx < bodyLen
    /\ \E node \in TopNodes(idx) :
         LET st == checkNode(node, CheckerState(symbolTable, staticVariables,
                                                assignedVariables, errors))
         IN /\ symbolTable' = st.symbolTable
            /\ staticVariables' = st.staticVariables
            /\ assignedVariables' = st.assignedVariables
            /\ errors' = st.errors
            /\ lastNode' = node
            /\ pre' = EntryState(symbolTable, staticVariables, assignedVariables, errors)
            /\ chkPc' = IF IsNull(st.thrown) THEN "walk" ELSE "thrown"
    /\ idx' = idx + 1
    /\ UNCHANGED <<bodyLen, checkCalls, usedAtEntry>>

\* the loop is over and check() returns; the instance keeps its fields
checkReturn ==
    /\ chkPc = "walk"
    /\ idx = bodyLen
    /\ chkPc' = "idle"
    /\ UNCHANGED <<symbolTable, staticVariables, assignedVariables, errors,
                   bodyLen, idx, lastNode, pre, checkCalls, usedAtEntry>>

\* check(ast, document, errors) with the Program parse() returned and the
\* document that was parsed
checkProgram ==
    /\ chkPc = "idle"
    /\ checkCalls = 0
    /\ parsePc = "idle"
    /\ parseCalls > 0
    /\ result.type = "Program"
    /\ bodyLen' = Len(result.body)
    /\ chkPc' = "walk"
    /\ errors' = <<>>
    /\ symbolTable' = EmptyMap
    /\ staticVariables' = {}
    /\ assignedVariables' = {}
    /\ idx' = 0
    /\ lastNode' = Null
    /\ pre' = EntryState(EmptyMap, {}, {}, <<>>)
    /\ checkCalls' = checkCalls + 1
    /\ usedAtEntry' = (symbolTable # EmptyMap)

\* one iteration of the loop of check() over the body of that Program; an
\* exception raised in the walk leaves check()
checkProgramNode ==
    /\ chkPc = "walk"
    /\ idx < bodyLen
    /\ LET node == result.body[idx + 1]
           st == checkNode(node, CheckerState(symbolTable, staticVariables,
                                              assignedVariables, errors))
       IN /\ symbolTable' = st.symbolTable
          /\ staticVariables' = st.staticVariables
          /\ assignedVariables' = st.assignedVariables
          /\ errors' = st.errors
          /\ lastNode' = node
          /\ pre' = EntryState(symbolTable, staticVariables, assignedVariables, errors)
          /\ chkPc' = IF IsNull(st.thrown) THEN "walk" ELSE "thrown"
    /\ idx' = idx + 1
    /\ UNCHANGED <<bodyLen, checkCalls, usedAtEntry>>

\* one check() call on a new TypeChecker
CheckNext ==
    /\ check(1, MaxBody) \/ checkBodyNode \/ checkReturn
    /\ UNCHANGED <<compatVars, parserVars, serverVars>>

\* several check() calls on one TypeChecker
ReuseNext ==
    /\ check(MaxChecks, MaxReuseBody) \/ checkBodyNode \/ checkReturn
    /\ UNCHANGED <<compatVars, parserVars, serverVars>>

\* ------------------------------------------------------------------------
\* NeutronParser (src/server/parser.js): tokenize
\* ------------------------------------------------------------------------
\* A text is a sequence of characters; offsets count from 0 as in the code.
Letters ==
    {"a", "b", "c", "d", "e", "f", "g", "h", "i", "j", "k", "l", "m", "n", "o", "p", "q", "r", "s", "t", "u", "v", "w", "x", "y", "z",
     "A", "B", "C", "D", "E", "F", "G", "H", "I", "J", "K", "L", "M", "N", "O", "P", "Q", "R", "S", "T", "U", "V", "W", "X", "Y", "Z"}

Digits == {"0", "1", "2", "3", "4", "5", "6", "7", "8", "9"}

\* /\s/
IsWhitespace(c) == c \in {" ", "\t", "\n", "\r"}

\* /[0-9]/, /[0-9.]/, /[a-zA-Z_$]/, /[a-zA-Z0-9_$]/
IsDigit(c) == c \in Digits

IsNumberChar(c) == c \in Digits \cup {"."}

IsIdentifierStart(c) == c \in Letters \cup {"_", "$"}

IsIdentifierPart(c) == c \in Letters \cup Digits \cup {"_", "$"}

\* input[i]; past the end it is undefined, which equals no character
CharAt(text, i) == IF i >= 0 /\ i < Len(text) THEN text[i + 1] ELSE "undefined"

\* the characters of input.slice(s, e)
Slice(text, s, e) == SubSeq(text, s + 1, IF e < Len(text) THEN e ELSE Len(text))

\* the string value of input.slice(s, e): the characters of the slice, joined
RECURSIVE StringOf(_)
StringOf(cs) ==
    IF cs = <<>> THEN "" ELSE cs[1] \o StringOf(Tail(cs))

Token(type, value, s, e) == [type |-> type, value |-> value, start |-> s, end |-> e]

isKeyword(value) ==
    value \in
    {"var", "int", "float", "string", "bool", "array", "object", "any",
     "if", "elif", "else", "while", "for", "return", "break", "continue",
     "class", "fun", "this", "and", "or", "not", "in", "new",
     "match", "case", "default", "use", "using", "true", "false", "nil",
     "static"}

\* the while loops of tokenize that move `current` over a run of characters
RECURSIVE ScanWhile(_, _, _)
ScanWhile(text, i, run) ==
    IF /\ i < Len(text)
       /\ \/ run = "number" /\ IsNumberChar(text[i + 1])
          \/ run = "identifier" /\ IsIdentifierPart(text[i + 1])
          \/ run = "comment" /\ text[i + 1] # "\n"
    THEN ScanWhile(text, i + 1, run)
    ELSE i

RECURSIVE ScanBlockComment(_, _)
ScanBlockComment(text, i) ==
    IF i < Len(text) - 1 /\ ~(text[i + 1] = "*" /\ text[i + 2] = "/")
    THEN ScanBlockComment(text, i + 1)
    ELSE i

ScanString_noEscape(text, i, quote) ==
    IF \E j \in i..(Len(text) - 1) : text[j + 1] = quote
    THEN CHOOSE j \in i..(Len(text) - 1) :
            text[j + 1] = quote /\ \A k \in i..(j - 1) : text[k + 1] # quote
    ELSE Len(text)

RECURSIVE ScanString(_, _, _)
ScanString(text, i, quote) ==
    IF i < Len(text) /\ text[i + 1] # quote
    THEN IF text[i + 1] = "\\"
         THEN ScanString(text, i + 2, quote)
         ELSE ScanString(text, i + 1, quote)
    ELSE i

TwoCharOperator_sourceText(char, next) ==
    IF <<char, next>> \in {<<"=", "=">>, <<"!", "=">>, <<">", "=">>, <<"<", "=">>,
                           <<"&", "&">>, <<"|", "|">>}
    THEN char \o next
    ELSE "none"

\* the two-character operators and the value their token gets
TwoCharOperator(char, next) ==
    IF char = "=" /\ next = "=" THEN "=="
    ELSE IF char = "!" /\ next = "=" THEN "!="
    ELSE IF char = ">" /\ next = "=" THEN ">="
    ELSE IF char = "<" /\ next = "=" THEN "<="
    ELSE IF char = "&" /\ next = "&" THEN "and"
    ELSE IF char = "|" /\ next = "|" THEN "or"
    ELSE "none"

LexStep_minusAfterOperand(text, current) ==
    LET char == text[current + 1]
        next == CharAt(text, current + 1)
        skip(to) == [next |-> to, token |-> Null, exc |-> Null]
        push(type, value, to) ==
            [next |-> to, token |-> Token(type, value, current, to), exc |-> Null]
    IN
    IF IsWhitespace(char) THEN skip(current + 1)
    ELSE IF char = "/" /\ next = "/" THEN skip(ScanWhile(text, current, "comment"))
    ELSE IF char = "/" /\ next = "*" THEN skip(ScanBlockComment(text, current + 2) + 2)
    ELSE IF char \in {"\"", "'"}
    THEN IF ScanString(text, current + 1, char) >= Len(text)
         THEN [next |-> current, token |-> Null,
               exc |-> Message("Unterminated string", "", current)]
         ELSE push("STRING",
                   StringOf(Slice(text, current, ScanString(text, current + 1, char) + 1)),
                   ScanString(text, current + 1, char) + 1)
    ELSE IF IsDigit(char)
    THEN push("NUMBER", StringOf(Slice(text, current, ScanWhile(text, current, "number"))),
              ScanWhile(text, current, "number"))
    ELSE IF char = "-" /\ current + 1 < Len(text) /\ IsDigit(next)
            /\ (current = 0 \/ ~IsIdentifierPart(text[current]))
    THEN push("NUMBER",
              StringOf(Slice(text, current, ScanWhile(text, current + 1, "number"))),
              ScanWhile(text, current + 1, "number"))
    ELSE IF IsIdentifierStart(char)
    THEN push(IF isKeyword(StringOf(Slice(text, current,
                                          ScanWhile(text, current, "identifier"))))
              THEN "KEYWORD" ELSE "IDENTIFIER",
              StringOf(Slice(text, current, ScanWhile(text, current, "identifier"))),
              ScanWhile(text, current, "identifier"))
    ELSE IF TwoCharOperator(char, next) # "none"
    THEN push("OPERATOR", TwoCharOperator(char, next), current + 2)
    ELSE push("SYMBOL", char, current + 1)

\* one turn of the loop of tokenize at offset `current`: the offset it moves
\* to, the token it pushes (Null: none) and the exception it throws (Null:
\* none)
LexStep(text, current) ==
    LET char == text[current + 1]
        next == CharAt(text, current + 1)
        skip(to) == [next |-> to, token |-> Null, exc |-> Null]
        push(type, value, to) ==
            [next |-> to, token |-> Token(type, value, current, to), exc |-> Null]
    IN
    IF IsWhitespace(char) THEN skip(current + 1)
    ELSE IF char = "/" /\ next = "/" THEN skip(ScanWhile(text, current, "comment"))
    ELSE IF char = "/" /\ next = "*" THEN skip(ScanBlockComment(text, current + 2) + 2)
    ELSE IF char \in {"\"", "'"}
    THEN IF ScanString(text, current + 1, char) >= Len(text)
         THEN [next |-> current, token |-> Null,
               exc |-> Message("Unterminated string", "", current)]
         ELSE push("STRING",
                   StringOf(Slice(text, current, ScanString(text, current + 1, char) + 1)),
                   ScanString(text, current + 1, char) + 1)
    ELSE IF IsDigit(char)
    THEN push("NUMBER", StringOf(Slice(text, current, ScanWhile(text, current, "number"))),
              ScanWhile(text, current, "number"))
    ELSE IF char = "-" /\ current + 1 < Len(text) /\ IsDigit(next)
    THEN push("NUMBER",
              StringOf(Slice(text, current, ScanWhile(text, current + 1, "number"))),
              ScanWhile(text, current + 1, "number"))
    ELSE IF IsIdentifierStart(char)
    THEN push(IF isKeyword(StringOf(Slice(text, current,
                                          ScanWhile(text, current, "identifier"))))
              THEN "KEYWORD" ELSE "IDENTIFIER",
              StringOf(Slice(text, current, ScanWhile(text, current, "identifier"))),
              ScanWhile(text, current, "identifier"))
    ELSE IF TwoCharOperator(char, next) # "none"
    THEN push("OPERATOR", TwoCharOperator(char, next), current + 2)
    ELSE push("SYMBOL", char, current + 1)

\* the loop of tokenize from offset `current` on, toks being the tokens pushed
\* so far; exc is the exception thrown (Null: none)
RECURSIVE TokenizeFrom(_, _, _)
TokenizeFrom(text, current, toks) ==
    IF current >= Len(text) THEN [tokens |-> toks, exc |-> Null]
    ELSE IF ~IsNull(LexStep(text, current).exc)
    THEN [tokens |-> toks, exc |-> LexStep(text, current).exc]
    ELSE TokenizeFrom(text, LexStep(text, current).next,
                      IF IsNull(LexStep(text, current).token) THEN toks
                      ELSE Append(toks, LexStep(text, current).token))

tokenize(text) == TokenizeFrom(text, 0, <<>>)

\* ------------------------------------------------------------------------
\* NeutronParser: the recursive-descent parser
\* ------------------------------------------------------------------------
\* A parsing method is an operator of cx, the text and the tokens it reads, and
\* p, the fields it writes (this.position, this.errors).  It yields the fields
\* as it leaves them, the node it returns and exc, the exception it throws
\* (Null: none).  exc = Hang says that the method never returns.
Context(text, toks) == [input |-> text, tokens |-> toks]

ParserState(pos, errs) == [position |-> pos, errors |-> errs]

Return(p, node) ==
    [position |-> p.position, errors |-> p.errors, node |-> node, exc |-> Null]

Throw(p, exc) ==
    [position |-> p.position, errors |-> p.errors, node |-> Null, exc |-> exc]

Hang == [type |-> "Hang", text |-> "", value |-> "", at |-> NoPosition]

\* the fields after the call that yielded r
After(r) == ParserState(r.position, r.errors)

\* the call did not return normally
Failed(r) == ~IsNull(r.exc)

\* the end offset of a node that has no `end` field (undefined)
UndefinedOffset == 0 - 2

currentToken(cx, p) ==
    IF p.position < Len(cx.tokens) THEN cx.tokens[p.position + 1] ELSE Null

nextToken(cx, p) ==
    IF p.position < Len(cx.tokens) THEN [p EXCEPT !.position = @ + 1] ELSE p

\* this.currentToken() && this.currentToken().value === v
ValueIs(cx, p, v) == ~IsNull(currentToken(cx, p)) /\ currentToken(cx, p).value = v

\* !this.currentToken() || this.currentToken().value !== v
ValueIsNot(cx, p, v) == IsNull(currentToken(cx, p)) \/ currentToken(cx, p).value # v

\* this.currentToken() && this.currentToken().type === t
TypeIs(cx, p, t) == ~IsNull(currentToken(cx, p)) /\ currentToken(cx, p).type = t

ParseError(message, s, e) == [message |-> message, start |-> s, end |-> e]

addError(p, message, s, e) == [p EXCEPT !.errors = Append(@, ParseError(message, s, e))]

\* throw new Error(`${text} at position ${this.currentToken().start}`): with
\* no current token the template itself throws a TypeError
ThrowAt(cx, p, text) ==
    IF IsNull(currentToken(cx, p))
    THEN Throw(p, NullPropertyError("start"))
    ELSE Throw(p, Message(text, "", currentToken(cx, p).start))

findEndOfLine_endOfInput(text, pos) == Len(text)

RECURSIVE findEndOfLine(_, _)
findEndOfLine(text, pos) ==
    IF pos < Len(text)
    THEN IF text[pos + 1] \in {"\n", "\r"} THEN pos ELSE findEndOfLine(text, pos + 1)
    ELSE Len(text)

isTypeKeyword(value) == value \in Types

StatementStarters ==
    {"var", "if", "while", "do", "for", "fun", "class", "return", "match", "retry", "try"}

isStatementStart(token) == token.value \in StatementStarters \/ token.type = "IDENTIFIER"

RECURSIVE skipToNextStatement(_, _)
skipToNextStatement(cx, p) ==
    LET token == currentToken(cx, p) IN
    IF IsNull(token) THEN p
    ELSE IF token.value = ";" THEN nextToken(cx, p)
    ELSE IF token.value = "}" \/ token.value = "{" THEN p
    ELSE IF isStatementStart(token) THEN p
    ELSE skipToNextStatement(cx, nextToken(cx, p))

\* while (this.currentToken() && the value is none of stops) this.nextToken()
RECURSIVE SkipUntil(_, _, _)
SkipUntil(cx, p, stops) ==
    IF ~IsNull(currentToken(cx, p)) /\ currentToken(cx, p).value \notin stops
    THEN SkipUntil(cx, nextToken(cx, p), stops)
    ELSE p

\* errorPos of the recoveries: the start of the current token, or
\* this.tokens.length - 1 at the end of the tokens
ErrorPos(cx, p) ==
    IF ~IsNull(currentToken(cx, p)) THEN currentToken(cx, p).start ELSE Len(cx.tokens) - 1

\* this[method](): the call of a method that is defined further down
RECURSIVE Invoke(_, _, _)
RECURSIVE parseIfStatement(_, _)

\* The steps of a parsing method.  Each one takes r, what the steps before it
\* yielded, and is left out when they threw.
\* if (!this.currentToken() || this.currentToken().value !== v) throw ...
Require(cx, r, v, text) ==
    IF Failed(r) THEN r
    ELSE IF ValueIsNot(cx, After(r), v) THEN ThrowAt(cx, After(r), text)
    ELSE r

\* this.nextToken()
Skip(cx, r) == IF Failed(r) THEN r ELSE Return(nextToken(cx, After(r)), r.node)

\* the check of Require and this.nextToken()
Expect(cx, r, v, text) == Skip(cx, Require(cx, r, v, text))

\* if (!this.currentToken() || this.currentToken().type !== t) throw ...; the
\* token is read and skipped
ExpectType(cx, r, t, text) ==
    IF Failed(r) THEN r
    ELSE IF ~TypeIs(cx, After(r), t) THEN ThrowAt(cx, After(r), text)
    ELSE Return(nextToken(cx, After(r)), currentToken(cx, After(r)))

\* if (this.currentToken() && this.currentToken().value === v) this.nextToken()
Accept(cx, r, v) ==
    IF Failed(r) \/ ValueIsNot(cx, After(r), v) THEN r ELSE Skip(cx, r)

\* this[method]()
Parse(method, cx, r) == IF Failed(r) THEN r ELSE Invoke(method, cx, After(r))

\* the recovery from a missing token: an error at errorPos, then
\* while (this.currentToken() && the value is none of stops) this.nextToken()
Recover(cx, p, text, stops) ==
    SkipUntil(cx, addError(p, Message(text, "", NoPosition), ErrorPos(cx, p), ErrorPos(cx, p) + 1),
              stops)

\* the `end` of the statements that take it from the token after them
EndAfter(cx, p, fallback) ==
    IF ~IsNull(currentToken(cx, p)) THEN currentToken(cx, p).end ELSE fallback

\* the `end` of the statements that take it from the start of the token after
\* their `;`, r being the statement before the `;`
EndAtNext(cx, r, fallback) ==
    IF ValueIs(cx, After(r), ";")
    THEN IF ~IsNull(currentToken(cx, nextToken(cx, After(r))))
         THEN currentToken(cx, nextToken(cx, After(r))).start
         ELSE fallback + 1
    ELSE fallback

\* the Literal node of a token: typeof value and the token text
LiteralOf(cx, token, valueType) ==
    Literal(valueType, Slice(cx.input, token.start, token.end), token.start, token.end)

parseVariableDeclaration(cx, p) ==
    LET startToken == currentToken(cx, p)
        isStatic == startToken.value = "static"
        \* after 'static', 'var' is checked and skipped
        var(r) ==
            IF ~isStatic THEN r
            ELSE IF ~IsNull(currentToken(cx, After(r))) /\ currentToken(cx, After(r)).value # "var"
            THEN ThrowAt(cx, After(r), "Expected 'var' after 'static'")
            ELSE Skip(cx, r)
        \* the type annotation: the node is declaredType
        annotation(r) ==
            IF Failed(r) THEN r
            ELSE IF /\ ~IsNull(currentToken(cx, After(r)))
                    /\ isTypeKeyword(currentToken(cx, After(r)).value)
            THEN Return(nextToken(cx, After(r)), currentToken(cx, After(r)).value)
            ELSE Return(After(r), "null")
        initializer(r) ==
            IF ValueIs(cx, After(r), "=")
            THEN Invoke("parseExpression", cx, nextToken(cx, After(r)))
            ELSE Return(After(r), Null)
        \* the check for the semicolon and the node, ri being the initializer
        declaration(declaredType, nameToken, ri) ==
            IF Failed(ri) THEN ri
            ELSE IF ValueIs(cx, After(ri), ";")
            THEN Return(nextToken(cx, After(ri)),
                        VariableDeclaration(declaredType, nameToken.value, ri.node, isStatic,
                                            startToken.start, EndAtNext(cx, ri, nameToken.end)))
            ELSE Return(addError(After(ri),
                                 Message("Missing semicolon at end of variable declaration",
                                         "", NoPosition),
                                 nameToken.end, findEndOfLine(cx.input, nameToken.end)),
                        VariableDeclaration(declaredType, nameToken.value, ri.node, isStatic,
                                            startToken.start, nameToken.end))
        \* rn.node is nameToken
        named(declaredType, rn) ==
            IF Failed(rn) THEN rn ELSE declaration(declaredType, rn.node, initializer(rn))
        typed(rt) ==
            IF Failed(rt) THEN rt
            ELSE named(rt.node, ExpectType(cx, rt, "IDENTIFIER", "Expected identifier"))
    IN typed(annotation(var(Return(nextToken(cx, p), Null))))

\* the head `( test )` of if and while statements with its two recoveries;
\* ended says that the tokens ran out in the first one, where the statement
\* parser returns a node without test and body
parseCondition(cx, p, openMessage, closeMessage) ==
    LET close(rt) ==
            IF Failed(rt) THEN rt
            ELSE IF ValueIsNot(cx, After(rt), ")")
            THEN Accept(cx, Return(Recover(cx, After(rt), closeMessage, {")", "{", ";"}), rt.node),
                        ")")
            ELSE Skip(cx, rt)
        \* p1: after the recovery, if `(` is missing
        test(missingOpen, p1) ==
            IF missingOpen /\ IsNull(currentToken(cx, p1))
            THEN Return(p1, Null) @@ [ended |-> TRUE]
            ELSE close(Invoke("parseExpression", cx, nextToken(cx, p1))) @@ [ended |-> FALSE]
    IN test(ValueIsNot(cx, p, "("),
            IF ValueIsNot(cx, p, "(") THEN Recover(cx, p, openMessage, {"(", "{", ";"}) ELSE p)

parseIfStatement_elseBlock(cx, p) ==
    LET startToken == currentToken(cx, p)
        \* the else branch after the consequent, r
        elseBranch(r) ==
            IF ValueIs(cx, After(r), "else")
            THEN Invoke("parseBlock", cx, nextToken(cx, After(r)))
            ELSE Return(After(r), Null)
        statement(test, consequent, ra) ==
            IF Failed(ra) THEN Throw(After(ra), ra.exc)
            ELSE Return(After(ra),
                        IfStatement(test, consequent, ra.node, startToken.start,
                                    EndAfter(cx, After(ra), UndefinedOffset)))
        alternate(test, rb) ==
            IF Failed(rb) THEN rb ELSE statement(test, rb.node, elseBranch(rb))
        consequent(rc) ==
            IF Failed(rc) THEN Throw(After(rc), rc.exc)
            ELSE IF rc.ended
            THEN Return(After(rc),
                        IfStatement(Null, Null, Null, startToken.start, startToken.end))
            ELSE alternate(rc.node, Invoke("parseBlock", cx, After(rc)))
    IN consequent(parseCondition(cx, nextToken(cx, p), "Expected '(' after 'if'",
                                 "Expected ')' after if condition"))

parseIfStatement(cx, p) ==
    LET startToken == currentToken(cx, p)
        \* the else branch after the consequent, r
        elseBranch(r) ==
            IF ValueIs(cx, After(r), "else")
            THEN IF ValueIs(cx, nextToken(cx, After(r)), "if")
                 THEN parseIfStatement(cx, nextToken(cx, After(r)))
                 ELSE Invoke("parseBlock", cx, nextToken(cx, After(r)))
            ELSE Return(After(r), Null)
        statement(test, consequent, ra) ==
            IF Failed(ra) THEN Throw(After(ra), ra.exc)
            ELSE Return(After(ra),
                        IfStatement(test, consequent, ra.node, startToken.start,
                                    EndAfter(cx, After(ra), UndefinedOffset)))
        alternate(test, rb) ==
            IF Failed(rb) THEN rb ELSE statement(test, rb.node, elseBranch(rb))
        consequent(rc) ==
            IF Failed(rc) THEN Throw(After(rc), rc.exc)
            ELSE IF rc.ended
            THEN Return(After(rc),
                        IfStatement(Null, Null, Null, startToken.start, startToken.end))
            ELSE alternate(rc.node, Invoke("parseBlock", cx, After(rc)))
    IN consequent(parseCondition(cx, nextToken(cx, p), "Expected '(' after 'if'",
                                 "Expected ')' after if condition"))

parseWhileStatement(cx, p) ==
    LET startToken == currentToken(cx, p)
        statement(test, rb) ==
            IF Failed(rb) THEN rb
            ELSE Return(After(rb),
                        WhileStatement(test, rb.node, startToken.start,
                                       EndAfter(cx, After(rb), UndefinedOffset)))
        body(rc) ==
            IF Failed(rc) THEN Throw(After(rc), rc.exc)
            ELSE IF rc.ended
            THEN Return(After(rc), WhileStatement(Null, Null, startToken.start, startToken.end))
            ELSE statement(rc.node, Invoke("parseBlock", cx, After(rc)))
    IN body(parseCondition(cx, nextToken(cx, p), "Expected '(' after 'while'",
                           "Expected ')' after while condition"))

parseForStatement(cx, p) ==
    LET startToken == currentToken(cx, p)
        \* if (this.currentToken().value !== stop) { one of the three parts }
        part(r, stop, isInit) ==
            IF Failed(r) THEN r
            ELSE IF IsNull(currentToken(cx, After(r)))
            THEN Throw(After(r), NullPropertyError("value"))
            ELSE IF currentToken(cx, After(r)).value = stop THEN Return(After(r), Null)
            ELSE IF isInit /\ currentToken(cx, After(r)).value = "var"
            THEN parseVariableDeclaration(cx, After(r))
            ELSE Invoke("parseExpression", cx, After(r))
        statement(init, test, update, rb) ==
            IF Failed(rb) THEN rb
            ELSE Return(After(rb),
                        [type |-> "ForStatement", init |-> init, test |-> test,
                         update |-> update, body |-> rb.node, start |-> startToken.start,
                         end |-> EndAfter(cx, After(rb), startToken.end)])
        body(init, test, ru) ==
            statement(init, test, ru.node,
                      Parse("parseBlock", cx,
                            Expect(cx, ru, ")", "Expected ')' after for update")))
        update(init, rt) ==
            body(init, rt.node,
                 part(Expect(cx, rt, ";", "Expected ';' after for test"), ")", FALSE))
        test(ri) ==
            update(ri.node, part(Expect(cx, ri, ";", "Expected ';' after for init"), ";", FALSE))
    IN test(part(Expect(cx, Return(nextToken(cx, p), Null), "(", "Expected '(' after 'for'"),
                 ";", TRUE))

\* the levels of the precedence ladder from parseLogicalOr (1) down to
\* parseMultiplicative (6): the operators a level joins and the node it builds
LevelOperators(level) ==
    CASE level = 1 -> {"or"}
      [] level = 2 -> {"and"}
      [] level = 3 -> {"==", "!="}
      [] level = 4 -> {"<", "<=", ">", ">="}
      [] level = 5 -> {"+", "-"}
      [] level = 6 -> {"*", "/", "%"}

LevelNode(level, op, l, r) ==
    IF level <= 2 THEN LogicalExpression(op, l, r) ELSE BinaryExpression(op, l, r)

RECURSIVE parseUnary(_, _)
RECURSIVE parseLevel(_, _, _)
RECURSIVE LevelLoop(_, _, _, _)

LevelLoop_rightAssociative(level, cx, p, expr) ==
    IF ~IsNull(currentToken(cx, p)) /\ currentToken(cx, p).value \in LevelOperators(level)
    THEN LET opToken == currentToken(cx, p)
             rr == parseLevel(level, cx, nextToken(cx, p))
         IN IF Failed(rr) THEN rr
            ELSE Return(After(rr), LevelNode(level, opToken.value, expr, rr.node))
    ELSE Return(p, expr)

\* the while loop of a level, expr being the expression built so far
LevelLoop(level, cx, p, expr) ==
    IF ~IsNull(currentToken(cx, p)) /\ currentToken(cx, p).value \in LevelOperators(level)
    THEN LET opToken == currentToken(cx, p)
             rr == parseLevel(level + 1, cx, nextToken(cx, p))
         IN IF Failed(rr) THEN rr
            ELSE LevelLoop(level, cx, After(rr),
                           LevelNode(level, opToken.value, expr, rr.node))
    ELSE Return(p, expr)

parseLevel(level, cx, p) ==
    IF level = 7 THEN parseUnary(cx, p)
    ELSE LET rl == parseLevel(level + 1, cx, p) IN
         IF Failed(rl) THEN rl ELSE LevelLoop(level, cx, After(rl), rl.node)

parseUnary(cx, p) ==
    IF ValueIs(cx, p, "not")
    THEN LET opToken == currentToken(cx, p)
             ra == parseUnary(cx, nextToken(cx, p))
         IN IF Failed(ra) THEN ra
            ELSE Return(After(ra), UnaryExpression(ra.node, opToken.start))
    ELSE Invoke("parsePrimary", cx, p)

parseMultiplicative(cx, p) == parseLevel(6, cx, p)

parseAdditive(cx, p) == parseLevel(5, cx, p)

parseRelational(cx, p) == parseLevel(4, cx, p)

parseEquality(cx, p) == parseLevel(3, cx, p)

parseLogicalAnd(cx, p) == parseLevel(2, cx, p)

parseLogicalOr(cx, p) == parseLevel(1, cx, p)

parseExpression(cx, p) == parseLogicalOr(cx, p)

parseObjectProperty(cx, p) ==
    LET property(key, rv) ==
            IF Failed(rv) THEN rv
            ELSE Return(After(rv),
                        [type |-> "Property", key |-> key, value |-> rv.node,
                         start |-> key.start, end |-> rv.node.end])
        \* rk.node is the key token
        value(rk) ==
            property(rk.node,
                     Parse("parseExpression", cx,
                           Expect(cx, rk, ":", "Expected ':' after object property key")))
    IN value(ExpectType(cx, Return(p, Null), "STRING", "Expected string key for object property"))

\* `items.push(parse...()); while the current token is ',' skip it and push
\* the next`: the items are expressions or, in an object, properties
RECURSIVE CommaList(_, _, _, _)

\* the item that was parsed, ri.node, is pushed
CommaItem(cx, ofProperties, items, ri) ==
    IF Failed(ri) THEN ri
    ELSE IF ValueIs(cx, After(ri), ",")
    THEN CommaList(cx, nextToken(cx, After(ri)), ofProperties, Append(items, ri.node))
    ELSE Return(After(ri), Append(items, ri.node))

CommaList(cx, p, ofProperties, items) ==
    CommaItem(cx, ofProperties, items,
              IF ofProperties THEN parseObjectProperty(cx, p)
              ELSE Invoke("parseExpression", cx, p))

\* if (this.currentToken() && this.currentToken().value !== close) { the list }
ListUntil(cx, r, close, ofProperties) ==
    IF Failed(r) THEN r
    ELSE IF ~IsNull(currentToken(cx, After(r))) /\ currentToken(cx, After(r)).value # close
    THEN CommaList(cx, After(r), ofProperties, <<>>)
    ELSE Return(After(r), <<>>)

\* the closing token of a list, ra, is checked and skipped: the node is the
\* list and endToken the closing token
ListEnd(cx, ra, close, text) ==
    Expect(cx, ra, close, text) @@ [endToken |-> currentToken(cx, After(ra))]

parseCallExpression(cx, p, callee) ==
    LET call(ra) ==
            IF Failed(ra) THEN Throw(After(ra), ra.exc)
            ELSE Return(After(ra),
                        [type |-> "CallExpression", callee |-> callee, arguments |-> ra.node,
                         start |-> callee.start, end |-> ra.endToken.end])
    IN call(ListEnd(cx,
                    ListUntil(cx, Expect(cx, Return(p, Null), "(",
                                         "Expected '(' for function call"),
                              ")", FALSE),
                    ")", "Expected ')' to close function call"))

MemberExpression(object, property) ==
    [type |-> "MemberExpression", object |-> object, property |-> property,
     start |-> object.start, end |-> property.end]

\* the part of parseMemberExpression after the property, which is r.node
MemberOrCall(cx, r) ==
    IF Failed(r) THEN r
    ELSE IF ValueIs(cx, After(r), "(")
    THEN parseCallExpression(cx, After(r), r.node)
    ELSE r

parseMemberExpression(cx, p, object) ==
    LET \* rp.node is the property token
        member(rp) ==
            IF Failed(rp) THEN rp
            ELSE MemberOrCall(cx,
                     Return(After(rp),
                            MemberExpression(object,
                                Identifier(rp.node.value, rp.node.start, rp.node.end))))
    IN member(ExpectType(cx, Expect(cx, Return(p, Null), ".", "Expected '.' for member access"),
                         "IDENTIFIER", "Expected identifier after '.'"))

parseArrayExpression(cx, p) ==
    LET array(re) ==
            IF Failed(re) THEN Throw(After(re), re.exc)
            ELSE Return(After(re),
                        [type |-> "ArrayExpression", elements |-> re.node,
                         start |-> currentToken(cx, p).start, end |-> re.endToken.end])
    IN array(ListEnd(cx, ListUntil(cx, Return(nextToken(cx, p), Null), "]", FALSE),
                     "]", "Expected ']' to close array"))

parseObjectExpression(cx, p) ==
    LET object(rp) ==
            IF Failed(rp) THEN Throw(After(rp), rp.exc)
            ELSE Return(After(rp),
                        [type |-> "ObjectExpression", properties |-> rp.node,
                         start |-> currentToken(cx, p).start, end |-> rp.endToken.end])
    IN object(ListEnd(cx, ListUntil(cx, Return(nextToken(cx, p), Null), "}", TRUE),
                      "}", "Expected '}' to close object"))

parseTemplateLiteral(cx, p, token) == Return(p, LiteralOf(cx, token, "string"))

\* the optional argument of return and throw, and the `;` after it
parseArgument(cx, p) ==
    Accept(cx,
           IF ~IsNull(currentToken(cx, p)) /\ currentToken(cx, p).value \notin {";", "}", "\n"}
           THEN Invoke("parseExpression", cx, p)
           ELSE Return(p, Null),
           ";")

\* the node of return and throw, ra being the argument and width the number
\* that is added to startToken.end when there is none
ArgumentStatement(type, startToken, width, ra) ==
    IF Failed(ra) THEN ra
    ELSE Return(After(ra),
                [type |-> type, argument |-> ra.node, start |-> startToken.start,
                 end |-> IF ~IsNull(ra.node) THEN ra.node.end ELSE startToken.end + width])

parseReturnStatement(cx, p) ==
    ArgumentStatement("ReturnStatement", currentToken(cx, p), 6,
                      parseArgument(cx, nextToken(cx, p)))

parseThrowStatement(cx, p) ==
    ArgumentStatement("ThrowStatement", currentToken(cx, p), 5,
                      parseArgument(cx, nextToken(cx, p)))

\* the part of parsePrimary after an identifier, which is r.node
CallOrMember(cx, r) ==
    IF ValueIs(cx, After(r), "(") THEN parseCallExpression(cx, After(r), r.node)
    ELSE IF ValueIs(cx, After(r), ".") THEN parseMemberExpression(cx, After(r), r.node)
    ELSE r

parsePrimary(cx, p) ==
    LET token == currentToken(cx, p) IN
    IF IsNull(token) THEN Throw(p, Message("Unexpected end of input", "", NoPosition))
    ELSE IF token.type = "NUMBER" THEN Return(nextToken(cx, p), LiteralOf(cx, token, "number"))
    ELSE IF token.type = "STRING"
    THEN IF \E i \in (token.start + 1)..(token.end - 1) :
                 cx.input[i] = "$" /\ cx.input[i + 1] = "{"   \* token.value.includes('${')
         THEN parseTemplateLiteral(cx, nextToken(cx, p), token)
         ELSE Return(nextToken(cx, p), LiteralOf(cx, token, "string"))
    ELSE IF token.value = "true" \/ token.value = "false"
    THEN Return(nextToken(cx, p), LiteralOf(cx, token, "boolean"))
    ELSE IF token.value = "nil" THEN Return(nextToken(cx, p), LiteralOf(cx, token, "null"))
    ELSE IF token.type = "IDENTIFIER"
    THEN CallOrMember(cx, Return(nextToken(cx, p),
                                 Identifier(token.value, token.start, token.end)))
    ELSE IF token.value = "("
    THEN Expect(cx, Invoke("parseExpression", cx, nextToken(cx, p)), ")", "Expected ')'")
    ELSE IF token.value = "throw" THEN parseThrowStatement(cx, p)
    ELSE IF token.value = "[" THEN parseArrayExpression(cx, p)
    ELSE IF token.value = "{" THEN parseObjectExpression(cx, p)
    ELSE Throw(p, Message("Unexpected token", token.value, token.start))

parseAssignmentExpression(cx, p, left) ==
    LET assignment(rr) ==
            IF Failed(rr) THEN rr
            ELSE Return(After(Accept(cx, rr, ";")),
                        AssignmentExpression(left, rr.node, EndAtNext(cx, rr, rr.node.end)))
    IN assignment(Parse("parseExpression", cx,
                        Expect(cx, Return(p, Null), "=", "Expected '=' in assignment")))

ExpressionStatement(expr, e) ==
    [type |-> "ExpressionStatement", expression |-> expr, start |-> expr.start, end |-> e]

\* the part of parseExpressionStatement after the expression, which is re.node
AssignmentOrExpression(cx, re) ==
    IF Failed(re) THEN re
    ELSE IF re.node.type = "Identifier" /\ ValueIs(cx, After(re), "=")
    THEN parseAssignmentExpression(cx, After(re), re.node)
    ELSE Return(After(Accept(cx, re, ";")),
                ExpressionStatement(re.node, EndAtNext(cx, re, re.node.end)))

parseExpressionStatement(cx, p) == AssignmentOrExpression(cx, Invoke("parseExpression", cx, p))

\* while (the current token is ',') { skip it; push an identifier, if one is
\* there, and skip it }
RECURSIVE ParameterLoop(_, _, _)
ParameterLoop(cx, p, params) ==
    IF ValueIs(cx, p, ",")
    THEN IF TypeIs(cx, nextToken(cx, p), "IDENTIFIER")
         THEN ParameterLoop(cx, nextToken(cx, nextToken(cx, p)),
                            Append(params, currentToken(cx, nextToken(cx, p)).value))
         ELSE ParameterLoop(cx, nextToken(cx, p), params)
    ELSE Return(p, params)

\* if (the current token is not ')') { push an identifier, if one is there,
\* and skip it; the loop }
ParameterList(cx, r) ==
    IF Failed(r) THEN r
    ELSE IF ~IsNull(currentToken(cx, After(r))) /\ currentToken(cx, After(r)).value # ")"
    THEN IF currentToken(cx, After(r)).type = "IDENTIFIER"
         THEN ParameterLoop(cx, nextToken(cx, After(r)), <<currentToken(cx, After(r)).value>>)
         ELSE ParameterLoop(cx, After(r), <<>>)
    ELSE Return(After(r), <<>>)

parseFunctionDeclaration(cx, p) ==
    LET startToken == currentToken(cx, p)
        declaration(nameToken, params, rb) ==
            IF Failed(rb) THEN rb
            ELSE Return(After(rb),
                        [type |-> "FunctionDeclaration",
                         id |-> Identifier(nameToken.value, nameToken.start, nameToken.end),
                         params |-> params, body |-> rb.node, start |-> startToken.start,
                         end |-> EndAfter(cx, After(rb), startToken.end)])
        \* rp.node is the parameters
        body(nameToken, rp) ==
            declaration(nameToken, rp.node,
                        Parse("parseBlock", cx,
                              Expect(cx, rp, ")", "Expected ')' after function parameters")))
        \* rn.node is nameToken
        parameters(rn) ==
            body(rn.node,
                 ParameterList(cx, Expect(cx, rn, "(", "Expected '(' after function name")))
    IN parameters(ExpectType(cx, Return(nextToken(cx, p), Null), "IDENTIFIER",
                             "Expected function name after 'fun'"))

parseClassDeclaration(cx, p) ==
    LET startToken == currentToken(cx, p)
        declaration(nameToken, rb) ==
            IF Failed(rb) THEN rb
            ELSE Return(After(rb),
                        [type |-> "ClassDeclaration",
                         id |-> Identifier(nameToken.value, nameToken.start, nameToken.end),
                         body |-> rb.node, start |-> startToken.start,
                         end |-> EndAfter(cx, After(rb), startToken.end)])
        \* rn.node is nameToken
        body(rn) ==
            declaration(rn.node,
                        Parse("parseBlock", cx,
                              Require(cx, rn, "{", "Expected '{' to start class body")))
    IN body(ExpectType(cx, Return(nextToken(cx, p), Null), "IDENTIFIER",
                       "Expected class name after 'class'"))

parseDoWhileStatement(cx, p) ==
    LET startToken == currentToken(cx, p)
        statement(body, test, re) ==
            IF Failed(re) THEN re
            ELSE Return(After(re),
                        [type |-> "DoWhileStatement", test |-> test, body |-> body,
                         start |-> startToken.start,
                         end |-> EndAfter(cx, After(re), startToken.end)])
        \* rt.node is the test
        close(body, rt) ==
            statement(body, rt.node,
                      Accept(cx, Expect(cx, rt, ")", "Expected ')' after while condition"), ";"))
        \* rb.node is the body
        condition(rb) ==
            close(rb.node,
                  Parse("parseExpression", cx,
                        Expect(cx, Expect(cx, rb, "while", "Expected 'while' after 'do' block"),
                               "(", "Expected '(' after 'while' in do-while")))
    IN condition(Invoke("parseBlock", cx, nextToken(cx, p)))

\* consequent.end of a match case: undefined for a block, a TypeError for null
ConsequentEnd(consequent) ==
    IF consequent.type = "BlockStatement" THEN UndefinedOffset ELSE consequent.end

\* the part of parseMatchCase and parseMatchDefault after the test, which is
\* r.node
parseMatchArm(cx, r, startToken, isDefault) ==
    LET arm(test, rc) ==
            IF Failed(rc) THEN rc
            ELSE IF IsNull(rc.node) THEN Throw(After(rc), NullPropertyError("end"))
            ELSE Return(After(rc),
                        IF isDefault
                        THEN [type |-> "MatchDefault", consequent |-> rc.node,
                              start |-> startToken.start, end |-> ConsequentEnd(rc.node)]
                        ELSE [type |-> "MatchCase", test |-> test, consequent |-> rc.node,
                              start |-> startToken.start, end |-> ConsequentEnd(rc.node)])
        \* ra: after `=>`
        consequent(test, ra) ==
            arm(test, Parse(IF ValueIs(cx, After(ra), "{") THEN "parseBlock"
                            ELSE "parseStatement", cx, ra))
    IN consequent(r.node,
                  Expect(cx, r, "=>", IF isDefault
                                      THEN "Expected '=>' after 'default' in match statement"
                                      ELSE "Expected '=>' after match case"))

parseMatchCase(cx, p) ==
    parseMatchArm(cx, Invoke("parseExpression", cx, nextToken(cx, p)), currentToken(cx, p), FALSE)

parseMatchDefault(cx, p) ==
    parseMatchArm(cx, Return(nextToken(cx, p), Null), currentToken(cx, p), TRUE)

\* the loop of parseMatchStatement over the cases
RECURSIVE MatchLoop(_, _, _)

\* the case or default that was parsed, rc.node, is pushed if there was one
MatchPush(cx, cases, rc) ==
    IF Failed(rc) THEN rc
    ELSE MatchLoop(cx, After(rc), IF IsNull(rc.node) THEN cases ELSE Append(cases, rc.node))

\* the case or default at p, if one is there
MatchCases(cx, p, cases) ==
    MatchPush(cx, cases,
              IF ValueIs(cx, p, "case") THEN parseMatchCase(cx, p)
              ELSE IF ValueIs(cx, p, "default") THEN parseMatchDefault(cx, p)
              ELSE Return(p, Null))

MatchLoop(cx, p, cases) ==
    IF ~IsNull(currentToken(cx, p)) /\ currentToken(cx, p).value # "}"
    THEN MatchCases(cx,
             IF currentToken(cx, p).value \in {"case", "default"} THEN p
             ELSE SkipUntil(cx,
                      addError(p, Message("Expected 'case' or 'default' in match statement",
                                          "", NoPosition),
                               currentToken(cx, p).start, currentToken(cx, p).start + 1),
                      {"case", "default", "}"}),
             cases)
    ELSE Return(p, cases)

MatchStatement(discriminant, cases, s, e) ==
    [type |-> "MatchStatement", discriminant |-> discriminant, cases |-> cases,
     start |-> s, end |-> e]

parseMatchStatement(cx, p) ==
    LET startToken == currentToken(cx, p)
        closeParen(r) ==
            IF Failed(r) THEN r
            ELSE IF ValueIsNot(cx, After(r), ")")
            THEN Accept(cx, Return(Recover(cx, After(r), "Expected ')' after match expression",
                                           {")", "{"}),
                                   r.node),
                        ")")
            ELSE Skip(cx, r)
        closeBrace(r) ==
            IF Failed(r) THEN r
            ELSE IF ValueIsNot(cx, After(r), "}")
            THEN Return(addError(After(r),
                                 Message("Expected '}' to end match statement", "", NoPosition),
                                 ErrorPos(cx, After(r)), ErrorPos(cx, After(r)) + 1),
                        r.node)
            ELSE Skip(cx, r)
        \* re.node is the cases
        statement(discriminant, re) ==
            IF Failed(re) THEN re
            ELSE Return(After(re),
                        MatchStatement(discriminant, re.node, startToken.start,
                                       EndAfter(cx, After(re), cx.tokens[Len(cx.tokens)].end)))
        \* p5: after the recovery, if `{` is missing
        cases(discriminant, missingBrace, p5) ==
            IF missingBrace /\ IsNull(currentToken(cx, p5))
            THEN Return(p5, MatchStatement(discriminant, <<>>, startToken.start, startToken.end))
            ELSE statement(discriminant, closeBrace(MatchLoop(cx, nextToken(cx, p5), <<>>)))
        \* rp.node is the discriminant
        openBrace(rp) ==
            IF Failed(rp) THEN rp
            ELSE cases(rp.node, ValueIsNot(cx, After(rp), "{"),
                       IF ValueIsNot(cx, After(rp), "{")
                       THEN Recover(cx, After(rp), "Expected '{' to start match body", {"{"})
                       ELSE After(rp))
        \* p1: after the recovery, if `(` is missing
        discriminant(missingOpen, p1) ==
            IF missingOpen /\ IsNull(currentToken(cx, p1))
            THEN Return(p1, MatchStatement(Null, <<>>, startToken.start, startToken.end))
            ELSE openBrace(closeParen(Invoke("parseExpression", cx, nextToken(cx, p1))))
        openParen(p0) ==
            discriminant(ValueIsNot(cx, p0, "("),
                         IF ValueIsNot(cx, p0, "(")
                         THEN Recover(cx, p0, "Expected '(' after 'match'", {"(", "{"})
                         ELSE p0)
    IN openParen(nextToken(cx, p))

\* the optional identifier of a catch clause: the node is the param
CatchParameter(cx, r) ==
    IF Failed(r) THEN r
    ELSE IF TypeIs(cx, After(r), "IDENTIFIER")
    THEN Return(nextToken(cx, After(r)),
                Identifier(currentToken(cx, After(r)).value, currentToken(cx, After(r)).start,
                           currentToken(cx, After(r)).end))
    ELSE Return(After(r), Null)

parseCatchClause(cx, p) ==
    LET startToken == currentToken(cx, p)
        clause(param, rb) ==
            IF Failed(rb) THEN rb
            ELSE Return(After(rb),
                        [type |-> "CatchClause", param |-> param, body |-> rb.node,
                         start |-> startToken.start, end |-> UndefinedOffset])
        \* rp.node is the param
        body(rp) ==
            clause(rp.node,
                   Parse("parseBlock", cx,
                         Expect(cx, rp, ")", "Expected ')' after catch parameter")))
    IN body(CatchParameter(cx, Expect(cx, Return(nextToken(cx, p), Null), "(",
                                      "Expected '(' after 'catch'")))

parseFinallyClause(cx, p) ==
    LET clause(rb) ==
            IF Failed(rb) THEN rb
            ELSE Return(After(rb),
                        [type |-> "FinallyClause", body |-> rb.node,
                         start |-> currentToken(cx, p).start, end |-> UndefinedOffset])
    IN clause(Invoke("parseBlock", cx, nextToken(cx, p)))

\* if (the current token is 'catch') { handler = this.parseCatchClause() }
Handler(cx, r) ==
    IF Failed(r) THEN r
    ELSE IF ValueIs(cx, After(r), "catch") THEN parseCatchClause(cx, After(r))
    ELSE Return(After(r), Null)

\* if (the current token is 'finally') { finalizer = this.parseFinallyClause() }
Finalizer(cx, r) ==
    IF Failed(r) THEN r
    ELSE IF ValueIs(cx, After(r), "finally") THEN parseFinallyClause(cx, After(r))
    ELSE Return(After(r), Null)

parseRetryStatement(cx, p) ==
    LET startToken == currentToken(cx, p)
        statement(count, body, rh) ==
            IF Failed(rh) THEN rh
            ELSE Return(After(rh),
                        [type |-> "RetryStatement", count |-> count, body |-> body,
                         handler |-> rh.node, start |-> startToken.start,
                         end |-> EndAfter(cx, After(rh), startToken.end)])
        \* rb.node is the body
        handler(count, rb) == statement(count, rb.node, Handler(cx, rb))
        \* rn.node is the count
        body(rn) ==
            handler(rn.node,
                    Parse("parseBlock", cx, Expect(cx, rn, ")", "Expected ')' after retry count")))
    IN body(Parse("parseExpression", cx,
                  Expect(cx, Return(nextToken(cx, p), Null), "(", "Expected '(' after 'retry'")))

parseTryStatement(cx, p) ==
    LET startToken == currentToken(cx, p)
        statement(block, handler, rf) ==
            IF Failed(rf) THEN rf
            ELSE Return(After(rf),
                        [type |-> "TryStatement", block |-> block,
                         handlers |-> IF IsNull(handler) THEN <<>> ELSE <<handler>>,
                         finalizer |-> rf.node, start |-> startToken.start,
                         end |-> EndAfter(cx, After(rf), startToken.end)])
        \* rh.node is the handler
        finalizer(block, rh) == statement(block, rh.node, Finalizer(cx, rh))
        \* rb.node is the block
        handler(rb) == finalizer(rb.node, Handler(cx, rb))
    IN handler(Invoke("parseBlock", cx, nextToken(cx, p)))

\* the loop of parseBlock over the statements between the braces.  An
\* iteration that leaves the position where it was is repeated for ever.
RECURSIVE BlockLoop(_, _, _)
BlockLoop(cx, p, body) ==
    IF p.position < Len(cx.tokens) /\ currentToken(cx, p).value # "}"
    THEN LET rs == Invoke("parseStatement", cx, p) IN
         IF Failed(rs) THEN rs
         ELSE IF rs.position = p.position THEN Throw(After(rs), Hang)
         ELSE BlockLoop(cx, After(rs), IF IsNull(rs.node) THEN body ELSE Append(body, rs.node))
    ELSE Return(p, body)

\* `if (this.currentToken()) this.nextToken()` after the loop of parseBlock,
\* and the node
BlockOf(cx, rb) ==
    IF Failed(rb) THEN rb
    ELSE Return(IF ~IsNull(currentToken(cx, After(rb))) THEN nextToken(cx, After(rb))
                ELSE After(rb),
                BlockStatement(rb.node))

\* the single statement block
BlockOfStatement(rs) ==
    IF Failed(rs) THEN rs ELSE Return(After(rs), BlockStatement(<<rs.node>>))

parseBlock(cx, p) ==
    IF ValueIs(cx, p, "{")
    THEN BlockOf(cx, BlockLoop(cx, nextToken(cx, p), <<>>))
    ELSE BlockOfStatement(Invoke("parseStatement", cx, p))

\* the try block of parseStatement
parseStatementTry(cx, p) ==
    LET token == currentToken(cx, p) IN
    IF token.value = "static" \/ token.value = "var" THEN parseVariableDeclaration(cx, p)
    ELSE IF token.value = "if" THEN parseIfStatement(cx, p)
    ELSE IF token.value = "while" THEN parseWhileStatement(cx, p)
    ELSE IF token.value = "do" THEN parseDoWhileStatement(cx, p)
    ELSE IF token.value = "for" THEN parseForStatement(cx, p)
    ELSE IF token.value = "fun" THEN parseFunctionDeclaration(cx, p)
    ELSE IF token.value = "class" THEN parseClassDeclaration(cx, p)
    ELSE IF token.value = "return" THEN parseReturnStatement(cx, p)
    ELSE IF token.value = "match" THEN parseMatchStatement(cx, p)
    ELSE IF token.value = "retry" THEN parseRetryStatement(cx, p)
    ELSE IF token.value = "try" THEN parseTryStatement(cx, p)
    ELSE IF token.type = "IDENTIFIER" THEN parseExpressionStatement(cx, p)
    ELSE Return(skipToNextStatement(cx, p), Null)

\* the catch block of parseStatement, r being what the try block yielded
parseStatementCatch(cx, token, r) ==
    IF Failed(r) /\ r.exc.type = "Error"
    THEN Return(skipToNextStatement(cx, addError(After(r), r.exc, token.start, token.end)), Null)
    ELSE r

parseStatement_rethrowDeclarations(cx, p) ==
    IF IsNull(currentToken(cx, p)) THEN Return(p, Null)
    ELSE IF currentToken(cx, p).value \in {"fun", "class", "for"} THEN parseStatementTry(cx, p)
    ELSE parseStatementCatch(cx, currentToken(cx, p), parseStatementTry(cx, p))

parseStatement(cx, p) ==
    IF IsNull(currentToken(cx, p)) THEN Return(p, Null)
    ELSE parseStatementCatch(cx, currentToken(cx, p), parseStatementTry(cx, p))

Invoke(method, cx, p) ==
    CASE method = "parseStatement" -> parseStatement(cx, p)
      [] method = "parseStatementTry" -> parseStatementTry(cx, p)
      [] method = "parseBlock" -> parseBlock(cx, p)
      [] method = "parseExpression" -> parseExpression(cx, p)
      [] method = "parsePrimary" -> parsePrimary(cx, p)

\* ------------------------------------------------------------------------
\* NeutronParser: parse(input)
\* ------------------------------------------------------------------------
\* what a parse() call yields: the object it returns (without the errors
\* field for a blank text), the exception that leaves it, or NeverReturns
Program(body, errs) == [type |-> "Program", body |-> body, errors |-> errs]

EmptyProgram == [type |-> "Program", body |-> <<>>]

Thrown(exc) == [type |-> "Thrown", exc |-> exc]

NeverReturns == [type |-> "NeverReturns"]

\* !input || input.trim() === ''
IsBlank(text) == \A i \in 1..Len(text) : IsWhitespace(text[i])

\* the loop of parse() from the fields p on, stmts being the statements
\* pushed so far
RECURSIVE ParseLoop(_, _, _)

\* the rest of the loop after the statement that yielded rs at p
ParseLoopAfter(cx, p, stmts, rs) ==
    IF Failed(rs) THEN IF rs.exc = Hang THEN NeverReturns ELSE Thrown(rs.exc)
    ELSE IF rs.position = p.position THEN NeverReturns
    ELSE ParseLoop(cx, After(rs), IF IsNull(rs.node) THEN stmts ELSE Append(stmts, rs.node))

ParseLoop(cx, p, stmts) ==
    IF p.position < Len(cx.tokens)
    THEN ParseLoopAfter(cx, p, stmts, Invoke("parseStatement", cx, p))
    ELSE Program(stmts, p.errors)

\* what tokenize yielded, and then the loop
ParseTokens(text, errs, lex) ==
    IF Failed(lex) THEN Thrown(lex.exc)
    ELSE ParseLoop(Context(text, lex.tokens), ParserState(0, errs), <<>>)

\* parse(text) on a new NeutronParser, whose this.errors is empty
ParseNew(text) ==
    IF IsBlank(text) THEN EmptyProgram ELSE ParseTokens(text, <<>>, tokenize(text))

\* ------------------------------------------------------------------------
\* The texts given to parse(): up to n pieces of Snippets, one after another
\* ------------------------------------------------------------------------
Snippets ==
    { \* `var x = 5` and a line break: a declaration without its semicolon
      <<"v", "a", "r", " ", "x", " ", "=", " ", "5", "\n">>,
      \* `static var int y `: a typed static declaration without initializer and semicolon
      <<"s", "t", "a", "t", "i", "c", " ", "v", "a", "r", " ", "i", "n", "t", " ", "y", " ">>,
      \* `y = 1;`
      <<"y", " ", "=", " ", "1", ";">>,
      \* `var = 5;`: the identifier is missing
      <<"v", "a", "r", " ", "=", " ", "5", ";">>,
      \* `f(1 2);`: the call is not closed where it must be
      <<"f", "(", "1", " ", "2", ")", ";">>,
      \* `fun (a) { }`: the function name is missing
      <<"f", "u", "n", " ", "(", "a", ")", " ", "{", " ", "}">>,
      \* `fun f( ;`: the parameter list is not closed
      <<"f", "u", "n", " ", "f", "(", " ", ";">>,
      \* `fun f() { }`
      <<"f", "u", "n", " ", "f", "(", ")", " ", "{", " ", "}">>,
      \* `class { }`: the class name is missing
      <<"c", "l", "a", "s", "s", " ", "{", " ", "}">>,
      \* `class A;`: the class body is missing
      <<"c", "l", "a", "s", "s", " ", "A", ";">>,
      \* `for (x) y;`: the for clauses are malformed
      <<"f", "o", "r", " ", "(", "x", ")", " ", "y", ";">>,
      \* `if (x) { var = 1; }`: a statement that fails inside a block
      <<"i", "f", " ", "(", "x", ")", " ", "{", " ", "v", "a", "r", " ", "=", " ", "1", ";", " ", "}">>,
      \* `var x =`: the initializer is missing
      <<"v", "a", "r", " ", "x", " ", "=">>,
      \* an unterminated string
      <<"\"", "a">>
    }

\* the texts given to a parser that is used for several parse() calls
ReuseTexts ==
    { \* `var x = 5` and a line break
      <<"v", "a", "r", " ", "x", " ", "=", " ", "5", "\n">>,
      \* `y = 1;`
      <<"y", " ", "=", " ", "1", ";">>,
      \* `var = 5;`
      <<"v", "a", "r", " ", "=", " ", "5", ";">>,
      \* a blank
      <<" ">>,
      \* an unterminated string
      <<"\"", "a">>
    }

\* the characters of the texts with string literals: the two quotes, the
\* backslash, a letter, a blank and `;`
StringPieces == {<<"\"">>, <<"'">>, <<"\\">>, <<"a">>, <<" ">>, <<";">>}

\* the pieces of the texts whose nodes are measured
SpanSnippets ==
    { \* `return;`
      <<"r", "e", "t", "u", "r", "n", ";">>,
      \* `return x;`
      <<"r", "e", "t", "u", "r", "n", " ", "x", ";">>,
      \* `x = 1;`
      <<"x", " ", "=", " ", "1", ";">>,
      \* `fun f() { }`
      <<"f", "u", "n", " ", "f", "(", ")", " ", "{", " ", "}">>,
      \* `while (x) { }`
      <<"w", "h", "i", "l", "e", " ", "(", "x", ")", " ", "{", " ", "}">>,
      \* `try { } catch (e) { }`
      <<"t", "r", "y", " ", "{", " ", "}", " ", "c", "a", "t", "c", "h", " ", "(", "e", ")",
        " ", "{", " ", "}">>,
      \* `var x;`
      <<"v", "a", "r", " ", "x", ";">>
    }

\* the pieces of the texts whose Programs are given to check()
CheckedSnippets ==
    { \* `return;`
      <<"r", "e", "t", "u", "r", "n", ";">>,
      \* `var int x = "a";`
      <<"v", "a", "r", " ", "i", "n", "t", " ", "x", " ", "=", " ", "\"", "a", "\"", ";">>,
      \* `var int x;`
      <<"v", "a", "r", " ", "i", "n", "t", " ", "x", ";">>,
      \* `x = "a";`
      <<"x", " ", "=", " ", "\"", "a", "\"", ";">>,
      \* `if (x) var = 1;`
      <<"i", "f", " ", "(", "x", ")", " ", "v", "a", "r", " ", "=", " ", "1", ";">>,
      \* `x;`
      <<"x", ";">>,
      \* `while`
      <<"w", "h", "i", "l", "e">>
    }

\* the clauses and bodies of the well-formed C-style for statements: an
\* empty clause, `i`, `i=0`, `var i=0`, `i<3`, `i=i+1`, `i+1`, and the
\* bodies `{}` and `x;`
ForInits == {<<>>, <<"i">>, <<"i", "=", "0">>, <<"v", "a", "r", " ", "i", "=", "0">>}

ForTests == {<<>>, <<"i">>, <<"i", "<", "3">>}

ForUpdates == {<<>>, <<"i">>, <<"i", "=", "i", "+", "1">>, <<"i", "+", "1">>}

ForBodies == {<<"{", "}">>, <<"x", ";">>}

\* `for(init;test;update)body`
ForText(init, test, update, body) ==
    <<"f", "o", "r", "(">> \o init \o <<";">> \o test \o <<";">> \o update \o <<")">> \o body

WellFormedFors ==
    {ForText(init, test, update, body) :
        init \in ForInits, test \in ForTests, update \in ForUpdates, body \in ForBodies}

\* the discriminants and arms of the well-formed match statements: `x`, `1`
\* and `x+1`; `case 1=>y;`, `case x=>{}`, `case 2=>y=1;` and `default=>y;`
MatchDiscriminants == {<<"x">>, <<"1">>, <<"x", "+", "1">>}

MatchArms ==
    {<<"c", "a", "s", "e", " ", "1", "=", ">", "y", ";">>,
     <<"c", "a", "s", "e", " ", "x", "=", ">", "{", "}">>,
     <<"c", "a", "s", "e", " ", "2", "=", ">", "y", "=", "1", ";">>}

MatchDefaults == {<<>>, <<"d", "e", "f", "a", "u", "l", "t", "=", ">", "y", ";">>}

\* `match(e){arms default}`, with up to two case arms
WellFormedMatches ==
    {<<"m", "a", "t", "c", "h", "(">> \o e \o <<")", "{">> \o arm1 \o arm2 \o default \o <<"}">> :
        e \in MatchDiscriminants, arm1 \in MatchArms \cup {<<>>},
        arm2 \in MatchArms \cup {<<>>},
        default \in MatchDefaults}

\* the binary operators as they are written, and the assignments
\* `z = a op b;`, `z = a op b op c;` with `not` before the first or the last
\* operand or before none
OperatorWords ==
    {<<"o", "r">>, <<"a", "n", "d">>, <<"=", "=">>, <<"!", "=">>, <<"<">>, <<"<", "=">>,
     <<">">>, <<">", "=">>, <<"+">>, <<"-">>, <<"*">>, <<"/">>, <<"%">>}

NotWords == {<<>>, <<"n", "o", "t", " ">>}

ExpressionTexts ==
    {<<"z", " ", "=", " ">> \o n1 \o <<"a", " ">> \o op1 \o <<" ", "b", ";">> :
        n1 \in NotWords, op1 \in OperatorWords}
    \cup
    {<<"z", " ", "=", " ">> \o n1 \o <<"a", " ">> \o op1 \o <<" ", "b", " ">> \o op2
        \o <<" ">> \o n3 \o <<"c", ";">> :
        n1 \in NotWords, n3 \in NotWords, op1 \in OperatorWords, op2 \in OperatorWords}

\* operands of type int, float, string, bool, array, object and any, and
\* the identifier i, which the texts declare as an int
OperandWords ==
    {<<"1">>, <<"1", ".", "5">>, <<"\"", "a", "\"">>, <<"t", "r", "u", "e">>,
     <<"[", "]">>, <<"{", "}">>, <<"z">>, <<"i">>}

\* `var int i = 1;var string y = l op r;`
InferTexts ==
    {<<"v", "a", "r", " ", "i", "n", "t", " ", "i", " ", "=", " ", "1", ";",
       "v", "a", "r", " ", "s", "t", "r", "i", "n", "g", " ", "y", " ", "=", " ">>
        \o l \o <<" ">> \o op \o <<" ">> \o r \o <<";">> :
        l \in OperandWords, r \in OperandWords, op \in OperatorWords}

\* the characters of the texts with minus signs
MinusPieces == {<<"-">>, <<"1">>, <<"a">>, <<" ">>, <<".">>, <<")">>}

\* the statements whose visits are counted: `var z = 1;`, `var int z = "a";`
\* (one diagnostic for every visit), `y = 1;` and `y = "a";`
VisitedStatements ==
    { <<"v", "a", "r", " ", "z", "=", "1", ";">>,
      <<"v", "a", "r", " ", "i", "n", "t", " ", "z", "=", "\"", "a", "\"", ";">>,
      <<"y", "=", "1", ";">>,
      <<"y", "=", "\"", "a", "\"", ";">> }

\* the constructs that enclose a statement: the text before it and the text
\* after it, for if, else, fun, while, do, for, try, catch with and without
\* a parameter, finally, retry and the catch of a retry
Enclosures ==
    { <<<<"i", "f", "(", "x", ")", "{">>,
        <<"}">>>>,
      <<<<"i", "f", "(", "x", ")", "{", "}", "e", "l", "s", "e", "{">>,
        <<"}">>>>,
      <<<<"f", "u", "n", " ", "f", "(", ")", "{">>,
        <<"}">>>>,
      <<<<"w", "h", "i", "l", "e", "(", "x", ")", "{">>,
        <<"}">>>>,
      <<<<"d", "o", "{">>,
        <<"}", "w", "h", "i", "l", "e", "(", "x", ")", ";">>>>,
      <<<<"f", "o", "r", "(", ";", ";", ")", "{">>,
        <<"}">>>>,
      <<<<"t", "r", "y", "{">>,
        <<"}", "c", "a", "t", "c", "h", "(", "e", ")", "{", "}">>>>,
      <<<<"t", "r", "y", "{", "}", "c", "a", "t", "c", "h", "(", "e", ")", "{">>,
        <<"}">>>>,
      <<<<"t", "r", "y", "{", "}", "c", "a", "t", "c", "h", "(", ")", "{">>,
        <<"}">>>>,
      <<<<"t", "r", "y", "{", "}", "f", "i", "n", "a", "l", "l", "y", "{">>,
        <<"}">>>>,
      <<<<"r", "e", "t", "r", "y", "(", "3", ")", "{">>,
        <<"}">>>>,
      <<<<"r", "e", "t", "r", "y", "(", "3", ")", "{", "}", "c", "a", "t", "c", "h", "(", "e", ")", "{">>,
        <<"}">>>> }

\* `static var int y;` and then one statement inside one construct: every
\* name is declared by one declaration, and y is written once
VisitTexts ==
    { <<"s", "t", "a", "t", "i", "c", " ", "v", "a", "r", " ", "i", "n", "t", " ", "y", ";">> \o e[1] \o s \o e[2] :
        e \in Enclosures, s \in VisitedStatements }


\* initializers and right-hand sides: nil, literals of the other kinds, an
\* array, an object, an undeclared name, the declared name, and operator,
\* call, member and parenthesized expressions with nil in them
NilExpressions ==
    { <<"n", "i", "l">>,
      <<"1">>,
      <<"1", ".", "5">>,
      <<"\"", "a", "\"">>,
      <<"t", "r", "u", "e">>,
      <<"[", "]">>,
      <<"{", "}">>,
      <<"z">>,
      <<"x">>,
      <<"n", "i", "l", " ", "+", " ", "1">>,
      <<"n", "o", "t", " ", "n", "i", "l">>,
      <<"f", "(", ")">>,
      <<"z", ".", "b">>,
      <<"(", "n", "i", "l", ")">> }

\* `var ` and an optional type
TypedVars ==
    {<<"v", "a", "r", " ">>} \cup
    { <<"v", "a", "r", " ", "i", "n", "t", " ">>,
      <<"v", "a", "r", " ", "f", "l", "o", "a", "t", " ">>,
      <<"v", "a", "r", " ", "s", "t", "r", "i", "n", "g", " ">>,
      <<"v", "a", "r", " ", "b", "o", "o", "l", " ">>,
      <<"v", "a", "r", " ", "a", "r", "r", "a", "y", " ">>,
      <<"v", "a", "r", " ", "o", "b", "j", "e", "c", "t", " ">>,
      <<"v", "a", "r", " ", "a", "n", "y", " ">> }

\* `var [type] x = e;` and `var [type] x;x = e;`
NilTexts ==
    {v \o <<"x", " ", "=", " ">> \o e \o <<";">> : v \in TypedVars, e \in NilExpressions}
    \cup {v \o <<"x", ";", "x", " ", "=", " ">> \o e \o <<";">> :
             v \in TypedVars, e \in NilExpressions}

\* the pieces of the texts with throw statements: `throw;`, `throw x;`,
\* `throw "a";`, `throw 1 + 2;`, `throw` without semicolon, `x = 1;`,
\* `return;` and `if (x) { throw x; }`
ThrowSnippets ==
    { <<"t", "h", "r", "o", "w", ";">>,
      <<"t", "h", "r", "o", "w", " ", "x", ";">>,
      <<"t", "h", "r", "o", "w", " ", "\"", "a", "\"", ";">>,
      <<"t", "h", "r", "o", "w", " ", "1", " ", "+", " ", "2", ";">>,
      <<"t", "h", "r", "o", "w">>,
      <<"x", " ", "=", " ", "1", ";">>,
      <<"r", "e", "t", "u", "r", "n", ";">>,
      <<"i", "f", " ", "(", "x", ")", " ", "{", " ", "t", "h", "r", "o", "w", " ", "x", ";", " ",
      "}">> }

\* the blocks of the else-if chains, with the types of their statements:
\* `{ }`, `{ y = 1; }` and `{ y; z; }`
IfBodies ==
    { [text |-> <<"{", " ", "}">>, kinds |-> <<>>],
      [text |-> <<"{", " ", "y", " ", "=", " ", "1", ";", " ", "}">>,
       kinds |-> <<"AssignmentExpression">>],
      [text |-> <<"{", " ", "y", ";", " ", "z", ";", " ", "}">>,
       kinds |-> <<"ExpressionStatement", "ExpressionStatement">>] }

\* there is no final else
NoElse == [text |-> <<>>, kinds |-> <<>>]

\* the conditions of a chain, in order
ConditionNames == <<"a", "b", "c", "d">>

\* a chain: the blocks of its conditions in order, and the block of its
\* final else or NoElse
IfChains ==
    {[arms |-> arms, last |-> last] :
        arms \in UNION {[1..n -> IfBodies] : n \in 1..MaxChain},
        last \in IfBodies \cup {NoElse}}

\* `if (a) B1 else if (b) B2 ... else Bn`, from the arm of index i on
RECURSIVE ChainFrom(_, _)
ChainFrom(chain, i) ==
    <<"i", "f", " ", "(", ConditionNames[i], ")", " ">> \o chain.arms[i].text
    \o (IF i < Len(chain.arms)
        THEN <<" ", "e", "l", "s", "e", " ">> \o ChainFrom(chain, i + 1)
        ELSE IF chain.last # NoElse
        THEN <<" ", "e", "l", "s", "e", " ">> \o chain.last.text
        ELSE <<>>)

ChainText(chain) == ChainFrom(chain, 1)

ChainTexts == {ChainText(chain) : chain \in IfChains}

\* the characters of the texts given to tokenize(): a letter, a digit, a
\* blank, a line break, a quote, `&`, `/` and `*`
LexPieces == {<<"a">>, <<"1">>, <<" ">>, <<"\n">>, <<"\"">>, <<"&">>, <<"/">>, <<"*">>}

RECURSIVE Texts(_, _)
Texts(pieces, n) ==
    IF n = 0 THEN {<<>>}
    ELSE Texts(pieces, n - 1) \cup {t \o s : t \in Texts(pieces, n - 1), s \in pieces}


\* parse(input) up to the loop: a blank text returns at once, tokenize may
\* throw, otherwise the loop starts.  this.errors is left as it is.  The
\* caller makes at most maxCalls calls on the instance, each with one of
\* texts.
parse(maxCalls, texts) ==
    /\ parsePc = "idle"
    /\ parseCalls < maxCalls
    /\ \E text \in texts :
         /\ parseArg' = text
         /\ IF IsBlank(text)
            THEN /\ result' = EmptyProgram
                 /\ UNCHANGED <<parsePc, input, tokens, position>>
            ELSE /\ input' = text
                 /\ IF Failed(tokenize(text))
                    THEN /\ result' = Thrown(tokenize(text).exc)
                         /\ UNCHANGED <<parsePc, tokens, position>>
                    ELSE /\ tokens' = tokenize(text).tokens
                         /\ position' = 0
                         /\ parsePc' = "loop"
                         /\ result' = Null
    /\ statements' = <<>>
    /\ lastStmt' = Null
    /\ parseCalls' = parseCalls + 1
    /\ UNCHANGED parserErrors

\* what a parseStatement call of the loop did: the token it started at, the
\* exception its try block threw (Null: none), the token and this.position the
\* parser was at when it was thrown, the node it returned, and this.position
\* and this.errors.length when it was called
StatementRecord(cx, p, try, rs) ==
    [token |-> currentToken(cx, p),
     caught |-> try.exc,
     thrownAt |-> currentToken(cx, After(try)),
     thrownPosition |-> try.position,
     node |-> rs.node,
     position |-> p.position,
     nErrors |-> Len(p.errors)]

\* what the loop does with rs, which parseStatement yielded at the fields p,
\* its try block having yielded try.  An exception that parseStatement lets
\* through leaves parse(); a call that never returns changes nothing any more.
Iteration(cx, p, try, rs) ==
    IF Failed(rs) /\ rs.exc = Hang
    THEN UNCHANGED <<parsePc, position, parserErrors, statements, result, lastStmt>>
    ELSE /\ position' = rs.position
         /\ parserErrors' = rs.errors
         /\ lastStmt' = StatementRecord(cx, p, try, rs)
         /\ IF Failed(rs)
            THEN /\ parsePc' = "idle"
                 /\ result' = Thrown(rs.exc)
                 /\ statements' = <<>>
            ELSE /\ statements' = IF IsNull(rs.node) THEN statements
                                  ELSE Append(statements, rs.node)
                 /\ UNCHANGED <<parsePc, result>>

\* one iteration of `while (this.position < this.tokens.length)`: a statement
\* is parsed and pushed if it is not null
parseIteration ==
    /\ parsePc = "loop"
    /\ position < Len(tokens)
    /\ Iteration(Context(input, tokens), ParserState(position, parserErrors),
                 Invoke("parseStatementTry", Context(input, tokens),
                        ParserState(position, parserErrors)),
                 Invoke("parseStatement", Context(input, tokens),
                        ParserState(position, parserErrors)))
    /\ UNCHANGED <<parseArg, input, tokens, parseCalls>>

\* the loop is over: parse() returns the statements and this.errors itself
parseReturn ==
    /\ parsePc = "loop"
    /\ position >= Len(tokens)
    /\ parsePc' = "idle"
    /\ result' = Program(statements, parserErrors)
    /\ statements' = <<>>
    /\ UNCHANGED <<parseArg, input, tokens, position, parserErrors, lastStmt, parseCalls>>

ParserInit ==
    /\ parsePc = "idle"
    /\ parseArg = <<>>
    /\ input = <<>>
    /\ tokens = <<>>
    /\ position = 0
    /\ parserErrors = <<>>
    /\ statements = <<>>
    /\ result = Null
    /\ lastStmt = Null
    /\ parseCalls = 0

\* ------------------------------------------------------------------------
\* isCompatibleType(expected, actual) on its own
\* ------------------------------------------------------------------------
\* the names isCompatibleType is given as `actual`
ActualTypes == Types \cup {"nil"}

\* an expression whose inferred type is t
ExpressionOfType(t) ==
    CASE t = "int" -> IntLiteral(6, 7)
      [] t = "float" -> FloatLiteral(6, 9)
      [] t = "string" -> StringLiteral(6, 9)
      [] t = "bool" -> Literal("boolean", <<"t", "r", "u", "e">>, 6, 10)
      [] t = "array" -> [type |-> "ArrayExpression", elements |-> <<>>, start |-> 6, end |-> 8]
      [] t = "object" -> [type |-> "ObjectExpression", properties |-> <<>>,
                          start |-> 6, end |-> 8]
      [] t = "any" -> NilLiteral(6, 9)

\* the document `var <expected> y = e; y = e;`, e an expression of type
\* actual, and the same document without the initializer
CompatDocument(expected, actual, initialized) ==
    <<VariableDeclaration(expected, "y",
                          IF initialized THEN ExpressionOfType(actual) ELSE Null,
                          FALSE, 0, 5),
      AssignmentExpression(Identifier("y", 5, 6), ExpressionOfType(actual), 10)>>

\* the number of diagnostics of check() on a new TypeChecker
DiagnosticCount(document) ==
    Len(checkList(document, CheckerState(EmptyMap, {}, {}, <<>>)).errors)

\* the pair is not used
CompatIdle ==
    /\ cmpExpected = "any"
    /\ cmpActual = "any"
    /\ cmpDone = FALSE
    /\ cmpResult = FALSE
    /\ cmpChecked = FALSE
    /\ cmpErrors = <<0, 0>>

CompatInit ==
    /\ cmpExpected \in Types
    /\ cmpActual \in ActualTypes
    /\ cmpDone = FALSE
    /\ cmpResult = FALSE
    /\ cmpChecked = FALSE
    /\ cmpErrors = <<0, 0>>

isCompatibleTypeCall ==
    /\ ~cmpDone
    /\ cmpDone' = TRUE
    /\ cmpResult' = isCompatibleType(cmpExpected, cmpActual)
    /\ UNCHANGED <<cmpExpected, cmpActual, cmpChecked, cmpErrors>>

\* check() on the two documents of the pair, each on a new TypeChecker
checkCompatDocument ==
    /\ ~cmpChecked
    /\ cmpActual \in Types
    /\ cmpChecked' = TRUE
    /\ cmpErrors' = <<DiagnosticCount(CompatDocument(cmpExpected, cmpActual, TRUE)),
                      DiagnosticCount(CompatDocument(cmpExpected, cmpActual, FALSE))>>
    /\ UNCHANGED <<cmpExpected, cmpActual, cmpDone, cmpResult>>

\* ------------------------------------------------------------------------
\* The language server (src/server/parser.js, from line 1755)
\* ------------------------------------------------------------------------
\* Map.prototype.delete
MapDelete(m, k) == [j \in DOMAIN m \ {k} |-> m[j]]

\* the server when the module is loaded: nothing is open, the Maps are empty
ServerInit ==
    /\ serverReady = FALSE
    /\ hasConfigurationCapability = FALSE
    /\ openDocuments = {}
    /\ validationDelays = EmptyMap
    /\ timers = {}
    /\ documentSettings = EmptyMap
    /\ waiting = EmptyMap
    /\ resolved = {}
    /\ parseCache = {}
    /\ serial = 0
    /\ changes = 0
    /\ configChanges = 0
    /\ closes = 0
    /\ sinceChange = [u \in URIs |-> VALIDATION_DELAY_TICKS]
    /\ bursts = [u \in URIs |-> 0]
    /\ timerCalls = [u \in URIs |-> 0]
    /\ cancelledByClose = [u \in URIs |-> 0]
    /\ lastFire = Null
    /\ published = {}
    /\ publishedClosed = {}

\* the messages of the client handled so far, initialize apart
Messages == changes + configChanges + closes

\* a message of the client is read: after onInitialize, and an expired timer
\* runs before the next message is read
NoTimerDue == serverReady /\ \A t \in timers : t.remaining > 0

\* connection.onInitialize: the capability is what the client declares
onInitialize ==
    /\ ~serverReady
    /\ serverReady' = TRUE
    /\ hasConfigurationCapability' \in BOOLEAN
    /\ UNCHANGED <<openDocuments, validationDelays, timers, documentSettings, waiting,
                   resolved, parseCache, serial, changes, configChanges, closes,
                   sinceChange, bursts, timerCalls, cancelledByClose, lastFire,
                   published, publishedClosed>>

\* clearTimeout(validationDelays.get(uri)), if the Map has the URI
clearTimeout(uri) ==
    {t \in timers : ~(MapHas(validationDelays, uri) /\ t.id = validationDelays[uri])}

\* getDocumentSettings(resource), settings being documentSettings: the
\* promise it returns, a new one if the Map has none for the URI
getDocumentSettings(resource, settings) ==
    IF MapHas(settings, resource) THEN settings[resource]
    ELSE [uri |-> resource, serial |-> serial]

\* the validateTextDocument calls of one turn that run to their end in that
\* turn: without the capability the settings are a resolved promise, with it
\* the promise may have been resolved already
Completed(uris, settings) ==
    {u \in uris : ~hasConfigurationCapability
                  \/ getDocumentSettings(u, settings) \in resolved}

\* connection.sendDiagnostics for each of uris
sendDiagnostics(uris) ==
    /\ published' = published \cup uris
    /\ publishedClosed' = publishedClosed \cup (uris \ openDocuments)

\* validateTextDocument for each of uris in one turn, settings being
\* documentSettings when the calls begin: the call gets the promise of the
\* settings and awaits it; it goes on to sendDiagnostics in the same turn if
\* the promise is resolved, and when the promise is resolved if not
validateTextDocument(uris, settings) ==
    /\ documentSettings' =
          IF hasConfigurationCapability
          THEN [u \in DOMAIN settings \cup uris |-> getDocumentSettings(u, settings)]
          ELSE settings
    /\ waiting' =
          [r \in DOMAIN waiting
                 \cup {getDocumentSettings(u, settings) : u \in uris \ Completed(uris, settings)}
             |-> (IF r \in DOMAIN waiting THEN waiting[r] ELSE 0)
                 + Cardinality({u \in uris \ Completed(uris, settings) :
                                   getDocumentSettings(u, settings) = r})]
    /\ sendDiagnostics(Completed(uris, settings))
    /\ serial' = IF hasConfigurationCapability /\ uris \ DOMAIN settings # {}
                 THEN serial + 1 ELSE serial

\* onDidChangeContent without its clearTimeout
onDidChangeContent_noClear(uri) ==
    /\ timers' = timers
                 \cup {[id |-> serial, uri |-> uri, remaining |-> VALIDATION_DELAY_TICKS]}
    /\ validationDelays' = MapSet(validationDelays, uri, serial)
    /\ serial' = serial + 1
    /\ changes' = changes + 1
    /\ sinceChange' = [sinceChange EXCEPT ![uri] = 0]
    /\ bursts' = [bursts EXCEPT ![uri] =
                     IF sinceChange[uri] >= VALIDATION_DELAY_TICKS THEN @ + 1 ELSE @]
    /\ UNCHANGED <<serverReady, hasConfigurationCapability,
                   documentSettings, waiting, resolved,
                   parseCache, configChanges, closes, timerCalls, cancelledByClose,
                   lastFire, published, publishedClosed>>

\* documents.onDidChangeContent: the pending timer of the URI is cleared and
\* a new one is set
onDidChangeContent(uri) ==
    /\ timers' = clearTimeout(uri)
                 \cup {[id |-> serial, uri |-> uri, remaining |-> VALIDATION_DELAY_TICKS]}
    /\ validationDelays' = MapSet(validationDelays, uri, serial)
    /\ serial' = serial + 1
    /\ changes' = changes + 1
    /\ sinceChange' = [sinceChange EXCEPT ![uri] = 0]
    /\ bursts' = [bursts EXCEPT ![uri] =
                     IF sinceChange[uri] >= VALIDATION_DELAY_TICKS THEN @ + 1 ELSE @]
    /\ UNCHANGED <<serverReady, hasConfigurationCapability,
                   documentSettings, waiting, resolved,
                   parseCache, configChanges, closes, timerCalls, cancelledByClose,
                   lastFire, published, publishedClosed>>

\* a document is opened: the document manager emits onDidChangeContent
didOpen(maxMessages) ==
    /\ NoTimerDue
    /\ Messages < maxMessages
    /\ \E uri \in URIs \ openDocuments :
          /\ openDocuments' = openDocuments \cup {uri}
          /\ onDidChangeContent(uri)

\* the content of an open document changes
didChange(maxMessages) ==
    /\ NoTimerDue
    /\ Messages < maxMessages
    /\ \E uri \in openDocuments : onDidChangeContent(uri)
    /\ UNCHANGED openDocuments

\* the callback of setTimeout: validateTextDocument(change.document), then
\* validationDelays.delete(uri)
timeout ==
    \E t \in timers :
       /\ t.remaining = 0
       /\ timers' = timers \ {t}
       /\ validateTextDocument({t.uri}, documentSettings)
       /\ validationDelays' = MapDelete(validationDelays, t.uri)
       /\ timerCalls' = [timerCalls EXCEPT ![t.uri] = @ + 1]
       /\ lastFire' = [uri |-> t.uri, since |-> sinceChange[t.uri]]
       /\ UNCHANGED <<serverReady, hasConfigurationCapability,
                   openDocuments, resolved, parseCache,
                      changes, configChanges, closes, sinceChange, bursts,
                      cancelledByClose>>

\* the client answers workspace/configuration: the promise is resolved and
\* the validateTextDocument calls that await it go on to sendDiagnostics
configurationResponse ==
    /\ NoTimerDue
    /\ \E r \in DOMAIN waiting :
          /\ resolved' = resolved \cup {r}
          /\ waiting' = MapDelete(waiting, r)
          /\ sendDiagnostics({r.uri})
    /\ UNCHANGED <<serverReady, hasConfigurationCapability,
                   openDocuments, validationDelays, timers,
                   documentSettings, parseCache, serial, changes, configChanges, closes,
                   sinceChange, bursts, timerCalls, cancelledByClose, lastFire>>

\* documents.onDidClose, after the document manager has dropped the document
onDidClose(maxMessages) ==
    /\ NoTimerDue
    /\ Messages < maxMessages
    /\ \E uri \in openDocuments :
          /\ openDocuments' = openDocuments \ {uri}
          /\ documentSettings' = MapDelete(documentSettings, uri)
          /\ parseCache' = parseCache \ {uri}
          /\ timers' = clearTimeout(uri)
          /\ validationDelays' = MapDelete(validationDelays, uri)
          /\ cancelledByClose' = [cancelledByClose EXCEPT ![uri] =
                                     IF MapHas(validationDelays, uri) THEN @ + 1 ELSE @]
          /\ sinceChange' = [sinceChange EXCEPT ![uri] = VALIDATION_DELAY_TICKS]
    /\ closes' = closes + 1
    /\ UNCHANGED <<serverReady, hasConfigurationCapability,
                   waiting, resolved, serial, changes,
                   configChanges, bursts, timerCalls, lastFire, published,
                   publishedClosed>>

\* connection.onDidChangeConfiguration: documentSettings.clear() with the
\* capability, then validateTextDocument for every open document
onDidChangeConfiguration(maxMessages) ==
    /\ NoTimerDue
    /\ Messages < maxMessages
    /\ configChanges' = configChanges + 1
    /\ validateTextDocument(openDocuments,
                            IF hasConfigurationCapability THEN EmptyMap ELSE documentSettings)
    /\ UNCHANGED <<serverReady, hasConfigurationCapability,
                   openDocuments, validationDelays, timers,
                   resolved, parseCache, changes, closes, sinceChange, bursts, timerCalls,
                   cancelledByClose, lastFire>>

\* the clock moves on by one tick
tick ==
    /\ NoTimerDue
    /\ timers # {} \/ \E u \in URIs : sinceChange[u] < VALIDATION_DELAY_TICKS
    /\ timers' = {[t EXCEPT !.remaining = @ - 1] : t \in timers}
    /\ sinceChange' = [u \in URIs |->
                         IF sinceChange[u] < VALIDATION_DELAY_TICKS THEN sinceChange[u] + 1
                         ELSE sinceChange[u]]
    /\ UNCHANGED <<serverReady, hasConfigurationCapability,
                   openDocuments, validationDelays,
                   documentSettings, waiting, resolved, parseCache, serial, changes,
                   configChanges, closes, bursts, timerCalls, cancelledByClose, lastFire,
                   published, publishedClosed>>

\* ------------------------------------------------------------------------
\* Properties of the checker walk
\* ------------------------------------------------------------------------
\* the diagnostics the last visited statement added to errors
NewErrors == SubSeq(errors, pre.nErrors + 1, Len(errors))

IsReassignDiagnostic(d) == d.message[1] = "Cannot reassign static variable '"

IsMismatchDiagnostic(d) == d.message[1] = "Type mismatch: expected "

IsRedeclaredDiagnostic(d) == Len(d.message) = 3 /\ d.message[3] = "' has already been declared"

TablesUnchanged ==
    /\ symbolTable = pre.symbolTable
    /\ staticVariables = pre.staticVariables
    /\ assignedVariables = pre.assignedVariables

\* the last visited statement is a top-level declaration / assignment
LastIsDeclaration == ~IsNull(lastNode) /\ lastNode.type = "VariableDeclaration"

LastIsAssignment == ~IsNull(lastNode) /\ lastNode.type = "AssignmentExpression"

\* C1: write-once for static variables.  A static declaration with an
\* initializer that is recorded (it adds no diagnostic) leaves the name in
\* staticVariables and assignedVariables; an assignment to a static name not
\* yet assigned adds no reassignment diagnostic and puts the name in
\* assignedVariables; an assignment to a name in staticVariables and in
\* assignedVariables adds exactly one "Cannot reassign static variable"
\* diagnostic over left.start..right.end, no type-mismatch diagnostic, and
\* changes none of the three structures.
C1_StaticWriteOnce ==
    /\ (LastIsDeclaration /\ lastNode.isStatic /\ ~IsNull(lastNode.init))
          => /\ \A k \in 1..Len(NewErrors) : ~IsReassignDiagnostic(NewErrors[k])
             /\ NewErrors = <<>> =>
                   /\ lastNode.name \in staticVariables
                   /\ lastNode.name \in assignedVariables
    /\ (LastIsAssignment /\ lastNode.left.name \in pre.staticVariables
                         /\ lastNode.left.name \notin pre.assignedVariables)
          => /\ \A k \in 1..Len(NewErrors) : ~IsReassignDiagnostic(NewErrors[k])
             /\ lastNode.left.name \in assignedVariables
    /\ (LastIsAssignment /\ lastNode.left.name \in pre.staticVariables
                         /\ lastNode.left.name \in pre.assignedVariables)
          => /\ NewErrors = <<Diagnostic(lastNode.left.start, lastNode.right.end,
                                         ReassignMessage(lastNode.left.name))>>
             /\ TablesUnchanged

\* C1 witness: a static int variable that has its value is assigned a string
\* by the third statement: one reassignment diagnostic, no type mismatch
C1_Witness ==
    /\ LastIsAssignment
    /\ lastNode.left.name \in pre.staticVariables
    /\ lastNode.left.name \in pre.assignedVariables
    /\ MapGet(pre.symbolTable, lastNode.left.name) = "int"
    /\ inferType(lastNode.right, pre.symbolTable) = "string"
    /\ Len(NewErrors) = 1
    /\ IsReassignDiagnostic(NewErrors[1])
    /\ idx = 3

\* C2: a VariableDeclaration visited while its name is in symbolTable adds
\* exactly one "has already been declared" diagnostic over the span of that
\* declaration and changes nothing else, whatever its static flag, its type
\* annotation and its nesting; of two declarations of one name in the two
\* blocks of an if statement the second is reported.
C2_Redeclaration ==
    /\ (LastIsDeclaration /\ MapHas(pre.symbolTable, lastNode.name))
          => /\ NewErrors = <<Diagnostic(lastNode.start, lastNode.end,
                                         RedeclaredMessage(lastNode.name))>>
             /\ TablesUnchanged
    /\ (~IsNull(lastNode) /\ lastNode.type \in {"FunctionDeclaration", "WhileStatement"}
           /\ MapHas(pre.symbolTable, lastNode.body.body[1].name))
          => /\ NewErrors = <<Diagnostic(lastNode.body.body[1].start,
                                         lastNode.body.body[1].end,
                                         RedeclaredMessage(lastNode.body.body[1].name))>>
             /\ TablesUnchanged
    /\ (~IsNull(lastNode) /\ lastNode.type = "IfStatement"
           /\ ~MapHas(pre.symbolTable, lastNode.consequent.body[1].name))
          => NewErrors = <<Diagnostic(lastNode.alternate.body[1].start,
                                      lastNode.alternate.body[1].end,
                                      RedeclaredMessage(lastNode.alternate.body[1].name))>>

\* C2 witness: a name declared inside a function body is declared again,
\* static and typed, inside a loop body, and that is reported
C2_Witness ==
    /\ ~IsNull(lastNode)
    /\ lastNode.type = "WhileStatement"
    /\ lastNode.body.body[1].isStatic
    /\ pre.symbolTable = [k \in {"x"} |-> "any"]
    /\ pre.nErrors = 0
    /\ Len(errors) = 1
    /\ IsRedeclaredDiagnostic(errors[1])
    /\ errors[1].range.start.line = idx - 1

\* C3: an assignment to a name whose declared type T is not `any`, the name
\* not being static and already assigned, adds one type-mismatch diagnostic
\* naming T and the inferred type A over the right-hand side when
\* isCompatibleType(T, A) is false and none when it is true, and leaves
\* symbolTable as it was.
C3_AssignmentTypeCheck ==
    (LastIsAssignment
        /\ MapHas(pre.symbolTable, lastNode.left.name)
        /\ MapGet(pre.symbolTable, lastNode.left.name) # "any"
        /\ ~(lastNode.left.name \in pre.staticVariables
             /\ lastNode.left.name \in pre.assignedVariables))
    => LET T == MapGet(pre.symbolTable, lastNode.left.name)
           A == inferType(lastNode.right, pre.symbolTable)
       IN /\ NewErrors =
                IF isCompatibleType(T, A) THEN <<>>
                ELSE <<Diagnostic(lastNode.right.start, lastNode.right.end,
                                  AssignMismatchMessage(T, A, lastNode.left.name))>>
          /\ symbolTable = pre.symbolTable

\* C3 witness: `var int x = 5; x = "a";` has produced its one diagnostic,
\* expected int, actual string
C3_Witness ==
    /\ LastIsAssignment
    /\ lastNode.left.name \notin pre.staticVariables
    /\ MapGet(pre.symbolTable, lastNode.left.name) = "int"
    /\ Len(NewErrors) = 1
    /\ NewErrors[1].message[2] = "int"
    /\ NewErrors[1].message[4] = "string"

\* C4: an assignment to a name that is not static and whose symbolTable
\* entry is absent (never declared) or `any` (declared without a type
\* annotation) adds no diagnostic, whatever the assigned value and however
\* many assignments came before.
C4_FreeAssignment ==
    (LastIsAssignment
        /\ lastNode.left.name \notin pre.staticVariables
        /\ MapGet(pre.symbolTable, lastNode.left.name) \in {"undefined", "any"})
    => NewErrors = <<>>

\* C4 witness: the third statement is an assignment of a string to a
\* non-static untyped variable that was initialised with a number and
\* assigned before, with no diagnostic in the whole document
C4_Witness ==
    /\ LastIsAssignment
    /\ idx = 3
    /\ lastNode.left.name \in pre.assignedVariables
    /\ lastNode.left.name \notin pre.staticVariables
    /\ MapGet(pre.symbolTable, lastNode.left.name) = "any"
    /\ inferType(lastNode.right, pre.symbolTable) = "string"
    /\ errors = <<>>

\* C7: the walk of every check() call starts with symbolTable,
\* staticVariables and assignedVariables empty, also on an instance whose
\* earlier call left entries in them.
C7_CheckStartsEmpty ==
    (chkPc = "walk" /\ idx = 0)
    => /\ symbolTable = EmptyMap
       /\ staticVariables = {}
       /\ assignedVariables = {}

\* C7 witness: a second check() has been entered on an instance whose
\* symbolTable held the names of the previous document
C7_Witness ==
    /\ chkPc = "walk"
    /\ idx = 0
    /\ checkCalls = 2
    /\ usedAtEntry
    /\ symbolTable = EmptyMap

\* ------------------------------------------------------------------------
\* Properties of isCompatibleType
\* ------------------------------------------------------------------------
\* the relation the pair of types is to be in
CompatibleByRule(expected, actual) ==
    \/ expected = actual
    \/ expected = "any"
    \/ actual = "any"
    \/ (expected = "float" /\ actual = "int")

\* C5: for every pair of the seven types, isCompatibleType(expected, actual)
\* is true exactly when expected = actual, or expected = any, or actual = any,
\* or expected = float and actual = int; (int, float) is incompatible.  The
\* document that declares a variable of type expected, with or without an
\* initializer of type actual, and then assigns it a value of type actual
\* gets no diagnostic when the pair is in the relation and one when it is not.
C5_CompatibilityRelation ==
    cmpActual \in Types =>
        /\ cmpDone => (cmpResult <=> CompatibleByRule(cmpExpected, cmpActual))
        /\ (cmpDone /\ cmpExpected = "int" /\ cmpActual = "float") => ~cmpResult
        /\ cmpChecked =>
              cmpErrors = IF CompatibleByRule(cmpExpected, cmpActual)
                          THEN <<0, 0>> ELSE <<1, 1>>

\* C5 witness: isCompatibleType("float", "int") has returned true and
\* `var float y = 5; y = 5;` has been checked without a diagnostic
C5_Witness ==
    /\ cmpDone
    /\ cmpChecked
    /\ cmpExpected = "float"
    /\ cmpActual = "int"
    /\ cmpResult
    /\ cmpErrors = <<0, 0>>

\* ------------------------------------------------------------------------
\* Properties of parse()
\* ------------------------------------------------------------------------
\* a parse() call has returned or thrown
ParseEnded == parsePc = "idle" /\ parseCalls > 0

\* C6: whatever calls came before it on the instance, a parse() call that
\* has ended gave what parse() of the same text gives on a new NeutronParser:
\* the same statements and the same ParseError list, or the same exception.
C6_NoStateBetweenCalls ==
    ParseEnded => result = ParseNew(parseArg)

\* the ParseErrors the last parseStatement call of the loop added
LastStatementErrors == SubSeq(parserErrors, lastStmt.nErrors + 1, Len(parserErrors))

\* value and type of the token at index i of this.tokens ("": there is none)
ValueAt(i) == IF i < Len(tokens) THEN tokens[i + 1].value ELSE ""

TypeAt(i) == IF i < Len(tokens) THEN tokens[i + 1].type ELSE ""

\* the tokens from index i on begin with `[static] var [type] name`: the
\* index after `static`, after `var`, after the type
AfterStatic(i) == IF ValueAt(i) = "static" THEN i + 1 ELSE i

AfterType(i) ==
    IF ValueAt(AfterStatic(i) + 1) \in Types THEN AfterStatic(i) + 2 ELSE AfterStatic(i) + 1

\* a token that cannot continue an expression
StartsAnew(i) ==
    \/ i >= Len(tokens)
    \/ TypeAt(i) = "IDENTIFIER"
    \/ ValueAt(i) \in {"var", "static", "fun", "class", "for", "if"}

\* the number of tokens of the declaration at index i when it is
\* `[static] var [type] name` or `[static] var [type] name = number`, and no
\* `;` follows; 0 when it is not of that form
PlainDeclarationLength(i) ==
    IF ValueAt(AfterStatic(i)) # "var" \/ TypeAt(AfterType(i)) # "IDENTIFIER" THEN 0
    ELSE IF ValueAt(AfterType(i) + 1) \notin {"=", ";"} THEN AfterType(i) + 1 - i
    ELSE IF /\ ValueAt(AfterType(i) + 1) = "="
            /\ TypeAt(AfterType(i) + 2) = "NUMBER"
            /\ StartsAnew(AfterType(i) + 3)
    THEN AfterType(i) + 3 - i
    ELSE 0

\* the last parseStatement call of the loop returned a variable declaration
\* whose last token is not `;`
DeclarationWithoutSemicolon ==
    /\ ~IsNull(lastStmt)
    /\ ~IsNull(lastStmt.node)
    /\ lastStmt.node.type = "VariableDeclaration"
    /\ tokens[position].value # ";"

\* the end of the physical line that holds offset pos
LineEnd(text, pos) ==
    IF \E i \in pos..(Len(text) - 1) : text[i + 1] \in {"\n", "\r"}
    THEN CHOOSE i \in pos..(Len(text) - 1) :
            /\ text[i + 1] \in {"\n", "\r"}
            /\ \A j \in pos..(i - 1) : text[j + 1] \notin {"\n", "\r"}
    ELSE Len(text)

\* the text with `;` at offset at, in the place of the blank that is there
\* or at the end of the text: nothing else moves
Terminated(text, at) ==
    IF at < Len(text) THEN [text EXCEPT ![at + 1] = ";"] ELSE Append(text, ";")

\* a `;` can be written after the last token of the last statement without
\* moving anything
CanTerminate ==
    \/ tokens[position].end = Len(input)
    \/ IsWhitespace(input[tokens[position].end + 1])

\* the text of the call with the last statement terminated, and its tokens
TerminatedContext ==
    Context(Terminated(input, tokens[position].end),
            tokenize(Terminated(input, tokens[position].end)).tokens)

\* r is the declaration of the last statement with its semicolon: the same
\* name, type, static flag and initializer, and no ParseError
SameDeclaration(r) ==
    /\ ~Failed(r)
    /\ r.errors = <<>>
    /\ r.position = position + 1
    /\ ~IsNull(r.node)
    /\ r.node.type = "VariableDeclaration"
    /\ r.node.name = lastStmt.node.name
    /\ r.node.declaredType = lastStmt.node.declaredType
    /\ r.node.isStatic = lastStmt.node.isStatic
    /\ r.node.init = lastStmt.node.init

\* what the loop of parse() gives from token index pos on
RestOfParse(cx, pos) == ParseLoop(cx, ParserState(pos, <<>>), <<>>)

\* the "Missing semicolon" ParseError from offset s to the end of its line
MissingSemicolonFrom(s) ==
    ParseError(Message("Missing semicolon at end of variable declaration", "", NoPosition),
               s, LineEnd(input, s))

\* C8 as stated: the one ParseError of a variable declaration that is not
\* followed by `;` spans from the end of the declaration, the end of its
\* last token, to the end of the physical line.
C8_SpanFromDeclarationEnd ==
    DeclarationWithoutSemicolon
    => LastStatementErrors = <<MissingSemicolonFrom(tokens[position].end)>>

\* C8, amended: a variable declaration that is not followed by `;` does not
\* throw; its parseStatement call adds exactly one ParseError, "Missing
\* semicolon at end of variable declaration", from the end of the declared
\* name (the `end` the emitted node carries) to the end of the physical line
\* of that offset (the next \n or \r, or the end of the input); the node has
\* the name, type, static flag and initializer of the declaration written
\* with its semicolon, and the statements and ParseErrors of the rest of the
\* text are those of the text with the semicolon.
C8_MissingSemicolon ==
    /\ (~IsNull(lastStmt) /\ PlainDeclarationLength(lastStmt.position) > 0)
          => /\ IsNull(lastStmt.caught)
             /\ DeclarationWithoutSemicolon
             /\ position = lastStmt.position + PlainDeclarationLength(lastStmt.position)
    /\ DeclarationWithoutSemicolon
          => /\ IsNull(lastStmt.caught)
             /\ LastStatementErrors =
                   <<MissingSemicolonFrom(tokens[AfterType(lastStmt.position) + 1].end)>>
             /\ lastStmt.node.end = tokens[AfterType(lastStmt.position) + 1].end
             /\ lastStmt.node.name = ValueAt(AfterType(lastStmt.position))
             /\ CanTerminate
                   => /\ SameDeclaration(parseStatement(TerminatedContext,
                                                        ParserState(lastStmt.position, <<>>)))
                      /\ RestOfParse(Context(input, tokens), position)
                            = RestOfParse(TerminatedContext, position + 1)

\* C8 witness: `var x = 5` at the end of its line has given its node and one
\* ParseError from offset 5, the end of `x`, to the line break at 9, and a
\* statement follows
C8_Witness ==
    /\ DeclarationWithoutSemicolon
    /\ lastStmt.token.value = "var"
    /\ lastStmt.node.name = "x"
    /\ ~IsNull(lastStmt.node.init)
    /\ parserErrors = <<ParseError(Message("Missing semicolon at end of variable declaration",
                                           "", NoPosition), 5, 9)>>
    /\ Len(input) > 10
    /\ TypeAt(position) = "IDENTIFIER"

\* the try block of the last parseStatement call of the loop threw
LastStatementThrew == ~IsNull(lastStmt) /\ ~IsNull(lastStmt.caught)

\* skipToNextStatement stops at the token of index i
EndsSkip(i) ==
    \/ ValueAt(i) \in {";", "{", "}"}
    \/ ValueAt(i) \in StatementStarters
    \/ TypeAt(i) = "IDENTIFIER"

\* this.position after skipToNextStatement is called at index from: after the
\* first `;`, or at the first brace or statement start, or at the end
SkipTarget(from) ==
    IF \E i \in from..(Len(tokens) - 1) : EndsSkip(i)
    THEN (CHOOSE i \in from..(Len(tokens) - 1) :
             EndsSkip(i) /\ \A j \in from..(i - 1) : ~EndsSkip(j))
         + (IF ValueAt(CHOOSE i \in from..(Len(tokens) - 1) :
                          EndsSkip(i) /\ \A j \in from..(i - 1) : ~EndsSkip(j)) = ";"
            THEN 1 ELSE 0)
    ELSE Len(tokens)

\* parse() has not been left by an exception
NotAborted == parsePc = "loop" \/ result.type = "Program"

\* C9: an exception raised while a statement is parsed is caught by
\* parseStatement and becomes exactly one ParseError, with the message of the
\* exception and the span of the offending token (the token the parser was at
\* when the exception was raised); skipToNextStatement follows, the exception
\* does not leave parse(), and the statement gives no node.
C9_StatementRecovery ==
    LastStatementThrew
    => /\ ~IsNull(lastStmt.thrownAt)
          => LastStatementErrors =
                <<ParseError(lastStmt.caught, lastStmt.thrownAt.start, lastStmt.thrownAt.end)>>
       /\ position = SkipTarget(lastStmt.thrownPosition)
       /\ NotAborted
       /\ IsNull(lastStmt.node)

\* the tokens from index i on are a function, class or for header that
\* cannot be parsed: the name, `(` or `)` of a function, the name or `{` of a
\* class is missing, or the first for clause is not followed by `;`
HeaderMalformed(i) ==
    \/ /\ ValueAt(i) = "fun"
       /\ \/ TypeAt(i + 1) # "IDENTIFIER"
          \/ ValueAt(i + 2) # "("
          \/ (ValueAt(i + 3) \notin {")", ","} /\ TypeAt(i + 3) # "IDENTIFIER")
    \/ /\ ValueAt(i) = "class"
       /\ (TypeAt(i + 1) # "IDENTIFIER" \/ ValueAt(i + 2) # "{")
    \/ /\ ValueAt(i) = "for"
       /\ \/ ValueAt(i + 1) # "("
          \/ (TypeAt(i + 2) = "IDENTIFIER" /\ ValueAt(i + 3) = ")")

\* the last parseStatement call of the loop began at `fun`, `class` or `for`
LastIsHeaderStatement ==
    ~IsNull(lastStmt) /\ lastStmt.token.value \in {"fun", "class", "for"}

\* C10 as stated: the error of a malformed function, class or for header is
\* not caught and not recovered; parse() is left with the exception and no
\* ParseError is recorded for it.
C10_HeaderErrorAborts ==
    (LastIsHeaderStatement /\ HeaderMalformed(lastStmt.position))
    => /\ parsePc = "idle"
       /\ result = Thrown(lastStmt.caught)
       /\ LastStatementErrors = <<>>

\* C10, amended: a function declaration with a missing name, `(` or `)`, a
\* class declaration with a missing name or `{` and a for statement with a
\* malformed clause raise an error, and parseStatement catches it like that
\* of any other statement: the last ParseError of the statement has the
\* message of the exception and the span of the `fun`, `class` or `for`
\* token (it is the only one for a malformed function or class header),
\* skipToNextStatement follows, the statement gives no node, and parse() is
\* not left with the exception.
C10_HeaderErrorCaught ==
    LastIsHeaderStatement
    => /\ HeaderMalformed(lastStmt.position) => ~IsNull(lastStmt.caught)
       /\ ~IsNull(lastStmt.caught)
             => /\ LastStatementErrors # <<>>
                /\ LastStatementErrors[Len(LastStatementErrors)] =
                      ParseError(lastStmt.caught, lastStmt.token.start, lastStmt.token.end)
                /\ (HeaderMalformed(lastStmt.position) /\ lastStmt.token.value # "for")
                      => Len(LastStatementErrors) = 1
                /\ position = SkipTarget(lastStmt.thrownPosition)
                /\ IsNull(lastStmt.node)
                /\ NotAborted

\* C10 witness: `fun (a) { }`, the name missing, has given one ParseError
\* over `fun` and no node, and the loop of parse() goes on at `a`
C10_Witness ==
    /\ LastIsHeaderStatement
    /\ lastStmt.token.value = "fun"
    /\ lastStmt.position = 0
    /\ ValueAt(1) = "("
    /\ lastStmt.caught.text = "Expected function name after 'fun'"
    /\ parserErrors = <<ParseError(lastStmt.caught, 0, 3)>>
    /\ parsePc = "loop"
    /\ ValueAt(position) = "a"
    /\ statements = <<>>

\* ------------------------------------------------------------------------
\* Properties of tokenize()
\* ------------------------------------------------------------------------
\* the number of backslashes in a row that end right before offset j, none of
\* them before offset from
RECURSIVE BackslashRun(_, _, _)
BackslashRun(text, from, j) ==
    IF j > from /\ text[j] = "\\" THEN 1 + BackslashRun(text, from, j - 1) ELSE 0

\* the quote at offset j closes the string literal opened at offset q: it is
\* the same quote and it is not escaped
StringCloses(text, q, j) ==
    /\ text[j + 1] = text[q + 1]
    /\ BackslashRun(text, q + 1, j) % 2 = 0

\* the offset after the string literal opened at q whose closing quote is the
\* first closing one
AfterClosingQuote(text, q) ==
    1 + CHOOSE j \in (q + 1)..(Len(text) - 1) :
            /\ StringCloses(text, q, j)
            /\ \A k \in (q + 1)..(j - 1) : ~StringCloses(text, q, k)

\* the offset of the first quote from offset from on
FirstQuote(text, from) ==
    CHOOSE q \in from..(Len(text) - 1) :
        /\ text[q + 1] \in {"\"", "'"}
        /\ \A k \in from..(q - 1) : text[k + 1] \notin {"\"", "'"}

\* the offset of the opening quote of the first string literal from offset
\* from on that has no closing quote (NoPosition: there is none), in a text
\* without comments
RECURSIVE UnterminatedString(_, _)
UnterminatedString(text, from) ==
    IF \A q \in from..(Len(text) - 1) : text[q + 1] \notin {"\"", "'"} THEN NoPosition
    ELSE IF \A j \in (FirstQuote(text, from) + 1)..(Len(text) - 1) :
               ~StringCloses(text, FirstQuote(text, from), j)
    THEN FirstQuote(text, from)
    ELSE UnterminatedString(text, AfterClosingQuote(text, FirstQuote(text, from)))

\* C11: for every text with a string literal whose opening quote has no
\* matching unescaped closing quote, tokenize() throws "Unterminated string"
\* with the offset of that opening quote and parse() is left by that
\* exception: it returns no result, this.tokens gets no tokens and no
\* ParseError is recorded.  A quote after an odd number of backslashes does
\* not close the literal.  A text without such a literal is tokenized.
C11_UnterminatedString ==
    parseCalls > 0
    => IF UnterminatedString(parseArg, 0) # NoPosition
       THEN /\ tokenize(parseArg).exc =
                  Message("Unterminated string", "", UnterminatedString(parseArg, 0))
            /\ parsePc = "idle"
            /\ result = Thrown(Message("Unterminated string", "",
                                       UnterminatedString(parseArg, 0)))
            /\ tokens = <<>>
            /\ statements = <<>>
            /\ parserErrors = <<>>
       ELSE IsNull(tokenize(parseArg).exc)

\* C11 witness: `a"\"`, whose only closing quote is escaped, has been given
\* to parse(), which threw with offset 1
C11_Witness ==
    /\ parseCalls = 1
    /\ parseArg = <<"a", "\"", "\\", "\"">>
    /\ result = Thrown(Message("Unterminated string", "", 1))
    /\ tokens = <<>>

\* the offsets of the minus signs of the text given to parse()
MinusAt == {i \in 0..(Len(parseArg) - 1) : parseArg[i + 1] = "-"}

\* the tokens that start at offset i
TokensAt(i) == {k \in 1..Len(tokens) : tokens[k].start = i}

\* C19: of a text without string literals and comments, a `-` immediately
\* followed by a digit is the first character of exactly one token, a NUMBER
\* whose text goes on over the digits, and is no token of its own, whatever
\* precedes it; any other `-` is exactly one SYMBOL token of one character.
C19_MinusFolding ==
    parseCalls > 0
    => \A i \in MinusAt :
          /\ Cardinality(TokensAt(i)) = 1
          /\ \A k \in TokensAt(i) :
                /\ tokens[k].value = StringOf(Slice(parseArg, i, tokens[k].end))
                /\ IF i + 1 < Len(parseArg) /\ IsDigit(parseArg[i + 2])
                   THEN /\ tokens[k].type = "NUMBER"
                        /\ tokens[k].end > i + 1
                   ELSE /\ tokens[k].type = "SYMBOL"
                        /\ tokens[k].end = i + 1

\* `a-1` and `1-1`: the minus sign after an operand is folded into the number
C19_Witness ==
    /\ parseCalls > 0
    /\ Len(parseArg) = 3
    /\ parseArg[1] \in {"a", "1"}
    /\ parseArg[2] = "-"
    /\ Len(tokens) = 2
    /\ tokens[2] = Token("NUMBER", "-1", 1, 3)

\* ------------------------------------------------------------------------
\* Properties of the nodes parse() returns
\* ------------------------------------------------------------------------
\* the field f of a node (Null: the node has no such field)
Field(node, f) == IF f \in DOMAIN node THEN node[f] ELSE Null

\* the list field f of a node (empty: the node has no such field)
ListField(node, f) == IF f \in DOMAIN node THEN node[f] ELSE <<>>

\* the nodes a node holds in its fields
SubNodes(node) ==
    CASE node.type = "VariableDeclaration" -> <<Field(node, "init")>>
      [] node.type \in {"AssignmentExpression", "BinaryExpression", "LogicalExpression"} ->
            <<Field(node, "left"), Field(node, "right")>>
      [] node.type \in {"UnaryExpression", "ReturnStatement", "ThrowStatement"} ->
            <<Field(node, "argument")>>
      [] node.type = "BlockStatement" -> ListField(node, "body")
      [] node.type \in {"FunctionDeclaration", "ClassDeclaration"} ->
            <<Field(node, "id"), Field(node, "body")>>
      [] node.type \in {"WhileStatement", "DoWhileStatement"} ->
            <<Field(node, "test"), Field(node, "body")>>
      [] node.type = "IfStatement" ->
            <<Field(node, "test"), Field(node, "consequent"), Field(node, "alternate")>>
      [] node.type = "ForStatement" ->
            <<Field(node, "init"), Field(node, "test"), Field(node, "update"),
              Field(node, "body")>>
      [] node.type = "ExpressionStatement" -> <<Field(node, "expression")>>
      [] node.type = "CallExpression" ->
            <<Field(node, "callee")>> \o ListField(node, "arguments")
      [] node.type = "MemberExpression" -> <<Field(node, "object"), Field(node, "property")>>
      [] node.type = "ArrayExpression" -> ListField(node, "elements")
      [] node.type = "ObjectExpression" -> ListField(node, "properties")
      [] node.type = "Property" -> <<Field(node, "value")>>
      [] node.type = "MatchStatement" ->
            <<Field(node, "discriminant")>> \o ListField(node, "cases")
      [] node.type = "MatchCase" -> <<Field(node, "test"), Field(node, "consequent")>>
      [] node.type = "MatchDefault" -> <<Field(node, "consequent")>>
      [] node.type = "CatchClause" -> <<Field(node, "param"), Field(node, "body")>>
      [] node.type = "FinallyClause" -> <<Field(node, "body")>>
      [] node.type = "RetryStatement" ->
            <<Field(node, "count"), Field(node, "body"), Field(node, "handler")>>
      [] node.type = "TryStatement" ->
            <<Field(node, "block")>> \o ListField(node, "handlers")
               \o <<Field(node, "finalizer")>>
      [] OTHER -> <<>>

\* the node, if there is one, and every node below it carry offsets start
\* and end with 0 <= start <= end <= n
RECURSIVE SpansWithin(_, _)
SpansWithin(node, n) ==
    \/ IsNull(node)
    \/ /\ "start" \in DOMAIN node
       /\ "end" \in DOMAIN node
       /\ 0 <= node.start
       /\ node.start <= node.end
       /\ node.end <= n
       /\ \A i \in 1..Len(SubNodes(node)) : SpansWithin(SubNodes(node)[i], n)

\* parse() has returned a Program
ParseReturned == ParseEnded /\ result.type = "Program"

\* C12: every node of the Program that parse(text) returns carries numeric
\* offsets start and end with 0 <= start <= end <= text.length.
C12_SpanBounds ==
    ParseReturned
    => \A i \in 1..Len(result.body) : SpansWithin(result.body[i], Len(parseArg))

\* ------------------------------------------------------------------------
\* Properties of typed declarations and of inferType
\* ------------------------------------------------------------------------
\* a declaration of `name` was rejected for the type of its initializer
\* before the last visited statement was entered
RejectedBefore(name) ==
    \E k \in 1..pre.nErrors :
        /\ Len(errors[k].message) = 7
        /\ errors[k].message[5] = " for variable '"
        /\ errors[k].message[6] = name

\* C17: a typed declaration of a name not yet in symbolTable whose
\* initializer has an incompatible type adds exactly one type-mismatch
\* diagnostic over the initializer, leaves symbolTable and assignedVariables
\* as they were and does not end the walk; while the name stays out of
\* symbolTable, an assignment to it adds no type-mismatch diagnostic and a
\* declaration of it adds no redeclaration diagnostic.
C17_RejectedDeclaration ==
    /\ (LastIsDeclaration
           /\ ~MapHas(pre.symbolTable, lastNode.name)
           /\ lastNode.declaredType # "null"
           /\ ~IsNull(lastNode.init)
           /\ ~isCompatibleType(lastNode.declaredType,
                                inferType(lastNode.init, pre.symbolTable)))
          => /\ NewErrors =
                   <<Diagnostic(lastNode.init.start, lastNode.init.end,
                                DeclMismatchMessage(lastNode.declaredType,
                                                    inferType(lastNode.init, pre.symbolTable),
                                                    lastNode.name))>>
             /\ symbolTable = pre.symbolTable
             /\ assignedVariables = pre.assignedVariables
             /\ chkPc # "thrown"
    /\ (LastIsAssignment /\ RejectedBefore(lastNode.left.name)
                         /\ ~MapHas(pre.symbolTable, lastNode.left.name))
          => \A k \in 1..Len(NewErrors) : ~IsMismatchDiagnostic(NewErrors[k])
    /\ (LastIsDeclaration /\ RejectedBefore(lastNode.name)
                          /\ ~MapHas(pre.symbolTable, lastNode.name))
          => \A k \in 1..Len(NewErrors) : ~IsRedeclaredDiagnostic(NewErrors[k])

\* `var int x = "a";` was rejected, and the second statement, which assigns
\* a string to x, has been visited without a diagnostic
C17_Witness ==
    /\ LastIsAssignment
    /\ idx = 2
    /\ pre.nErrors = 1
    /\ RejectedBefore(lastNode.left.name)
    /\ inferType(lastNode.right, pre.symbolTable) = "string"
    /\ ~MapHas(symbolTable, lastNode.left.name)
    /\ NewErrors = <<>>

\* the type the operator op has for operands of types l and r
OperatorType(op, l, r) ==
    IF op \in {"==", "!=", "<", "<=", ">", ">=", "and", "or"} THEN "bool"
    ELSE IF l = "int" /\ r = "int" /\ op # "/" THEN "int"
    ELSE "float"

\* check() has visited the declaration `var string y = l op r;`
LastIsOperatorDeclaration ==
    /\ parseArg \in InferTexts
    /\ LastIsDeclaration
    /\ lastNode.name = "y"

\* C18: the type inferred for `l op r` is bool for a comparison, `and` and
\* `or`, int for + - * % on two operands that infer int, and float for every
\* other arithmetic case; it is the type named by the one diagnostic that
\* rejects the declaration of the string variable y, and inferring it adds
\* no diagnostic of its own and changes none of the three structures (the
\* static flag aside, which the texts do not use).
C18_OperatorTypes ==
    LastIsOperatorDeclaration
    => /\ lastNode.init.type \in {"BinaryExpression", "LogicalExpression"}
       /\ NewErrors =
             <<Diagnostic(lastNode.init.start, lastNode.init.end,
                          DeclMismatchMessage("string",
                              OperatorType(lastNode.init.operator,
                                           inferType(lastNode.init.left, pre.symbolTable),
                                           inferType(lastNode.init.right, pre.symbolTable)),
                              "y"))>>
       /\ TablesUnchanged

\* `var string y = i / 1;`: both operands infer int, one of them through
\* symbolTable, and the type named by the diagnostic is float
C18_Witness ==
    /\ LastIsOperatorDeclaration
    /\ lastNode.init.operator = "/"
    /\ lastNode.init.left.type = "Identifier"
    /\ inferType(lastNode.init.left, pre.symbolTable) = "int"
    /\ inferType(lastNode.init.right, pre.symbolTable) = "int"
    /\ Len(NewErrors) = 1
    /\ NewErrors[1].message[4] = "float"

\* ------------------------------------------------------------------------
\* Properties of check() on the Programs parse() returns
\* ------------------------------------------------------------------------
\* check() was called with the parsed Program and has returned
CheckReturned == ParseReturned /\ chkPc = "idle" /\ checkCalls > 0

\* C13: check() on a Program that parse() returned is never left by an
\* exception, and it returns only when the walk has been through every
\* statement of the body, whatever diagnostics it has emitted on the way.
C13_CheckerNeverFails ==
    /\ chkPc # "thrown"
    /\ CheckReturned
       => /\ idx = Len(result.body)
          /\ idx > 0 => lastNode = result.body[idx]

\* a diagnostic for the first statement, and then an if statement whose
\* block holds a null entry, has been walked
C13_Witness ==
    /\ CheckReturned
    /\ idx = 2
    /\ pre.nErrors = 1
    /\ Len(errors) = 1
    /\ lastNode.type = "IfStatement"
    /\ lastNode.consequent.body = <<Null>>

\* ------------------------------------------------------------------------
\* Properties of the statements parse() builds
\* ------------------------------------------------------------------------
\* C14: a well-formed C-style for statement parses to exactly one
\* ForStatement node carrying init (null only if the clause is empty), test,
\* update and body, records no ParseError and leaves the cursor after the
\* body, which here is the end of the tokens.
C14_ForStatement ==
    (ParseEnded /\ parseArg \in WellFormedFors)
    => /\ result.type = "Program"
       /\ result.errors = <<>>
       /\ Len(result.body) = 1
       /\ result.body[1].type = "ForStatement"
       /\ IsNull(result.body[1].init) <=> tokens[3].value = ";"
       /\ result.body[1].body.type = "BlockStatement"
       /\ position = Len(tokens)

\* the positions of the tokens that start the arms of a match statement
ArmTokens == {i \in 1..Len(tokens) : tokens[i].value \in {"case", "default"}}

\* C15: a well-formed match statement is parsed by the first iteration of
\* the loop of parse() into exactly one MatchStatement whose discriminant is
\* the expression between the parentheses and whose case list holds one
\* MatchCase or MatchDefault for each arm, in source order, and no ParseError
\* is recorded.
C15_MatchStatement ==
    (parseArg \in WellFormedMatches /\ (ParseEnded \/ lastStmt # Null))
    => /\ parserErrors = <<>>
       /\ ParseEnded => result.type = "Program" /\ Len(result.body) = 1
       /\ ~ParseEnded => Len(statements) = 1
       /\ LET node == IF ParseEnded THEN result.body[1] ELSE statements[1] IN
          /\ node.type = "MatchStatement"
          /\ ~IsNull(node.discriminant)
          /\ node.discriminant.start = tokens[3].start
          /\ Len(node.cases) = Cardinality(ArmTokens)
          /\ \A k \in 1..Len(node.cases) :
                /\ node.cases[k].start \in {tokens[i].start : i \in ArmTokens}
                /\ \A j \in 1..(k - 1) : node.cases[j].start < node.cases[k].start
                /\ node.cases[k].type = "MatchDefault" <=>
                      \E i \in ArmTokens : /\ tokens[i].start = node.cases[k].start
                                           /\ tokens[i].value = "default"

\* ------------------------------------------------------------------------
\* Properties of parseExpression
\* ------------------------------------------------------------------------
\* the binary operators from the loosest to the tightest
Binding ==
    <<{"or"}, {"and"}, {"==", "!="}, {"<", "<=", ">", ">="}, {"+", "-"}, {"*", "/", "%"}>>

BindingOf(op) == CHOOSE l \in 1..Len(Binding) : op \in Binding[l]

\* the positions of the binary operators in a sequence of tokens
BinaryAt(toks) == {i \in 1..Len(toks) : \E l \in 1..Len(Binding) : toks[i].value \in Binding[l]}

\* the last of the loosest binary operators of a sequence of tokens
SplitAt(toks) ==
    CHOOSE i \in BinaryAt(toks) :
        \A j \in BinaryAt(toks) :
            \/ BindingOf(toks[j].value) > BindingOf(toks[i].value)
            \/ BindingOf(toks[j].value) = BindingOf(toks[i].value) /\ j <= i

\* the tree of a sequence of tokens that is made of identifiers, `not` and
\* binary operators: the loosest operator is at the root, the last one of
\* them if there are several, and `not` applies to the operand after it
RECURSIVE TreeOf(_)
TreeOf(toks) ==
    IF BinaryAt(toks) = {}
    THEN IF toks[1].value = "not"
         THEN [type |-> "UnaryExpression", operator |-> "not", argument |-> TreeOf(Tail(toks)),
               start |-> toks[1].start, end |-> toks[Len(toks)].end]
         ELSE [type |-> "Identifier", name |-> toks[1].value,
               start |-> toks[1].start, end |-> toks[1].end]
    ELSE [type |-> IF BindingOf(toks[SplitAt(toks)].value) <= 2 THEN "LogicalExpression"
                   ELSE "BinaryExpression",
          operator |-> toks[SplitAt(toks)].value,
          left |-> TreeOf(SubSeq(toks, 1, SplitAt(toks) - 1)),
          right |-> TreeOf(SubSeq(toks, SplitAt(toks) + 1, Len(toks))),
          start |-> toks[1].start, end |-> toks[Len(toks)].end]

\* C16: the tree parseExpression builds for the right-hand side of
\* `z = <expression>;` has the loosest operator at its root, left-associative
\* levels, `not` bound to the operand that follows it, LogicalExpression
\* nodes for `or` and `and` and BinaryExpression nodes for the others.
C16_Precedence ==
    (ParseEnded /\ parseArg \in ExpressionTexts)
    => /\ result.type = "Program"
       /\ result.errors = <<>>
       /\ Len(result.body) = 1
       /\ result.body[1].type = "AssignmentExpression"
       /\ result.body[1].right = TreeOf(SubSeq(tokens, 3, Len(tokens) - 1))

\* `z = a - b * c;` and `z = a - b - c;` have been parsed
C16_Witness ==
    /\ ParseEnded
    /\ parseArg \in ExpressionTexts
    /\ Len(tokens) = 8
    /\ tokens[4].value = "-"
    /\ \/ /\ tokens[6].value = "*"
          /\ result.body[1].right.operator = "-"
          /\ result.body[1].right.right.operator = "*"
       \/ /\ tokens[6].value = "-"
          /\ result.body[1].right.left.operator = "-"
          /\ result.body[1].right.right.type = "Identifier"

\* ------------------------------------------------------------------------
\* Termination of parse()
\* ------------------------------------------------------------------------
\* what parseStatement yields when the loop of parse() calls it in this state
NextStatement ==
    Invoke("parseStatement", Context(input, tokens), ParserState(position, parserErrors))

\* C20: while the loop of parse() runs, the cursor is within
\* 0..tokens.length, and the parseStatement call of the next iteration
\* returns (no statement loop of a block inside it runs for ever) with the
\* cursor at least one token further on and not beyond the end, unless it
\* leaves parse() by an exception.
C20_Progress ==
    (parsePc = "loop" /\ position < Len(tokens))
    => /\ position >= 0
       /\ NextStatement.exc # Hang
       /\ \/ Failed(NextStatement)
          \/ /\ NextStatement.position > position
             /\ NextStatement.position <= Len(tokens)

\* ------------------------------------------------------------------------
\* Properties of skipToNextStatement
\* ------------------------------------------------------------------------
\* the keywords on which parseStatement calls a statement parser
DispatchWords ==
    {"static", "var", "if", "while", "do", "for", "fun", "class", "return", "match",
     "retry", "try"}

\* parseStatement calls a statement parser on the token of index i
StartsStatement(i) == ValueAt(i) \in DispatchWords \/ TypeAt(i) = "IDENTIFIER"

\* the last parseStatement call of the loop of parse() called
\* skipToNextStatement: in its else branch or in its catch block
LastStatementSkipped ==
    /\ ~IsNull(lastStmt)
    /\ \/ LastStatementThrew
       \/ ~(lastStmt.token.value \in DispatchWords \/ lastStmt.token.type = "IDENTIFIER")

\* this.position when that skipToNextStatement call began
SkipFrom == IF LastStatementThrew THEN lastStmt.thrownPosition ELSE lastStmt.position

\* C21: when skipToNextStatement returns, the last token it consumed is `;`,
\* or the cursor is at an unconsumed `{` or `}`, or at an unconsumed token on
\* which parseStatement calls a statement parser (static, var, if, while,
\* do, for, fun, class, return, match, retry, try, an identifier), or the
\* tokens are exhausted; and no token it skipped is a brace or such a
\* statement start, and none but the last is `;`.
C21_ResynchronizationPoint ==
    LastStatementSkipped
    => /\ position \in SkipFrom..Len(tokens)
       /\ \/ position > SkipFrom /\ ValueAt(position - 1) = ";"
          \/ ValueAt(position) \in {"{", "}"}
          \/ StartsStatement(position)
          \/ position >= Len(tokens)
       /\ \A j \in SkipFrom..(position - 1) :
             /\ ValueAt(j) \notin {"{", "}"}
             /\ ~StartsStatement(j)
             /\ ValueAt(j) = ";" => j = position - 1

\* ------------------------------------------------------------------------
\* Properties of the visits of check()
\* ------------------------------------------------------------------------
\* C22: check() visits a VariableDeclaration or AssignmentExpression node at
\* most once, whatever construct encloses it.  Of a program in which every
\* name is declared by one declaration and the static variable is written
\* once, no diagnostic says that a variable has already been declared or
\* that a static variable is reassigned, and no diagnostic is emitted twice.
C22_SingleVisit ==
    checkCalls > 0
    => \A i \in 1..Len(errors) :
          /\ ~IsRedeclaredDiagnostic(errors[i])
          /\ ~IsReassignDiagnostic(errors[i])
          /\ \A j \in 1..Len(errors) : errors[j] = errors[i] => j = i

\* ------------------------------------------------------------------------
\* Properties of rejected declarations
\* ------------------------------------------------------------------------
\* C23: a VariableDeclaration for which check() emits a diagnostic (the
\* name is declared already, or the initializer does not have the declared
\* type) leaves symbolTable, staticVariables and assignedVariables as they
\* were when the node was entered; a rejected `static` declaration does not
\* make its name static.
C23_RejectedDeclarationFrame ==
    (LastIsDeclaration /\ NewErrors # <<>>)
    => /\ IsRedeclaredDiagnostic(NewErrors[1]) \/ IsMismatchDiagnostic(NewErrors[1])
       /\ TablesUnchanged

\* ------------------------------------------------------------------------
\* Properties of nil
\* ------------------------------------------------------------------------
\* the node is the literal nil
IsNilLiteral(node) == ~IsNull(node) /\ node.type = "Literal" /\ node.valueType = "null"

\* the expression whose type the last visited statement had inferred: the
\* initializer of a declaration, the right-hand side of an assignment
InferredExpression ==
    IF LastIsDeclaration THEN lastNode.init
    ELSE IF LastIsAssignment THEN lastNode.right
    ELSE Null

\* C24: inferType never returns "nil": every type it gives to an initializer
\* or a right-hand side is one of int, float, string, bool, array, object and
\* any, as is every type in symbolTable, so isCompatibleType is never called
\* with the actual type "nil"; the literal nil infers any, and a declaration
\* initialized with nil or an assignment of nil gets no type mismatch
\* diagnostic whatever the declared type: the declaration is recorded with
\* its declared type.
C24_NilInfersAny ==
    /\ \A n \in DOMAIN symbolTable : symbolTable[n] \in Types
    /\ inferType(InferredExpression, pre.symbolTable) \in Types
    /\ IsNilLiteral(InferredExpression)
       => /\ inferType(InferredExpression, pre.symbolTable) = "any"
          /\ NewErrors = <<>>
          /\ LastIsDeclaration
             => /\ MapGet(symbolTable, lastNode.name) =
                      (IF lastNode.declaredType = "null" THEN "any" ELSE lastNode.declaredType)
                /\ lastNode.name \in assignedVariables

\* `var int x = nil;` has been checked: no diagnostic, x is an int and has
\* its value
C24_Witness ==
    /\ CheckReturned
    /\ LastIsDeclaration
    /\ IsNilLiteral(lastNode.init)
    /\ lastNode.declaredType = "int"
    /\ errors = <<>>
    /\ MapGet(symbolTable, "x") = "int"
    /\ "x" \in assignedVariables

\* ------------------------------------------------------------------------
\* Properties of the end offsets
\* ------------------------------------------------------------------------
\* the statement kinds whose end offset parse() computes from the tokens
EndedStatements ==
    {"VariableDeclaration", "IfStatement", "WhileStatement", "ForStatement",
     "DoWhileStatement", "FunctionDeclaration", "ClassDeclaration", "TryStatement",
     "RetryStatement", "AssignmentExpression", "ExpressionStatement"}

\* the last parseStatement call of the loop of parse() returned a node of
\* these kinds and recorded no ParseError
LastStatementClean ==
    /\ ~IsNull(lastStmt)
    /\ ~IsNull(lastStmt.node)
    /\ IsNull(lastStmt.caught)
    /\ lastStmt.node.type \in EndedStatements
    /\ Len(parserErrors) = lastStmt.nErrors

\* C25: the end of a statement node that parse() builds without error
\* recovery is the end offset of the last token consumed for it, the token
\* before the cursor, and not the end of the first token of the statement
\* that follows.
C25_NodeEnd ==
    LastStatementClean
    => /\ position > lastStmt.position
       /\ lastStmt.node.end = tokens[position].end
       /\ position < Len(tokens) => lastStmt.node.end # tokens[position + 1].end

\* ------------------------------------------------------------------------
\* Properties of throw statements
\* ------------------------------------------------------------------------
\* the last parseStatement call of the loop of parse() began at `throw`
LastIsThrow == ~IsNull(lastStmt) /\ lastStmt.token.value = "throw"

\* what parseExpression yields after the `throw` at index i
ThrowExpression(i) ==
    parseExpression(Context(input, tokens), ParserState(i + 1, <<>>))

\* the throw at index i has no argument: `;`, `}` or the end follows
BareThrow(i) == ValueAt(i + 1) \in {";", "}", ""}

\* the index after the argument of the throw at index i
AfterThrowArgument(i) == IF BareThrow(i) THEN i + 1 ELSE ThrowExpression(i).position

\* C26: a statement that begins with `throw` parses to a ThrowStatement
\* node from the start of `throw`, whose argument is the expression after
\* it, or null if there is none; no ParseError is recorded, the cursor is
\* left after the argument and its `;`, and no Identifier named throw is
\* built.
C26_ThrowStatement ==
    LastIsThrow
    => /\ IsNull(lastStmt.caught)
       /\ Len(parserErrors) = lastStmt.nErrors
       /\ ~IsNull(lastStmt.node)
       /\ lastStmt.node.type = "ThrowStatement"
       /\ lastStmt.node.start = lastStmt.token.start
       /\ lastStmt.node.argument =
             (IF BareThrow(lastStmt.position) THEN Null
              ELSE ThrowExpression(lastStmt.position).node)
       /\ position = AfterThrowArgument(lastStmt.position)
                     + (IF ValueAt(AfterThrowArgument(lastStmt.position)) = ";" THEN 1 ELSE 0)

\* ------------------------------------------------------------------------
\* Properties of else-if chains
\* ------------------------------------------------------------------------
\* the node is a block whose statements have these types
IsBlockOf(node, kinds) ==
    /\ ~IsNull(node)
    /\ node.type = "BlockStatement"
    /\ Len(node.body) = Len(kinds)
    /\ \A k \in 1..Len(kinds) : ~IsNull(node.body[k]) /\ node.body[k].type = kinds[k]

\* the node is the IfStatement of the chain from the arm of index i on: its
\* test is the condition, its consequent the block of the arm, and its
\* alternate the IfStatement of the next arm, or the block of the final
\* else, or null
RECURSIVE IsChainFrom(_, _, _)
IsChainFrom(node, chain, i) ==
    /\ ~IsNull(node)
    /\ node.type = "IfStatement"
    /\ ~IsNull(node.test)
    /\ node.test.type = "Identifier"
    /\ node.test.name = ConditionNames[i]
    /\ IsBlockOf(node.consequent, chain.arms[i].kinds)
    /\ IF i < Len(chain.arms) THEN IsChainFrom(node.alternate, chain, i + 1)
       ELSE IF chain.last # NoElse THEN IsBlockOf(node.alternate, chain.last.kinds)
       ELSE IsNull(node.alternate)

\* C27: `if (a) B1 else if (b) B2 ... else Bn` parses to one top-level
\* IfStatement whose alternate is the IfStatement of the next condition, and
\* so on, the block of the final else being the alternate of the innermost
\* IfStatement; no ParseError is recorded, and the Program has no other
\* statement.
C27_ElseIfChain ==
    \A chain \in IfChains :
       (ParseEnded /\ parseArg = ChainText(chain))
       => /\ result.type = "Program"
          /\ result.errors = <<>>
          /\ Len(result.body) = 1
          /\ IsChainFrom(result.body[1], chain, 1)

\* `if (a) { } else if (b) { y = 1; } else if (c) { } else { y; z; }` has
\* been parsed: three IfStatements, each in the alternate of the one before
C27_Witness ==
    /\ ParseEnded
    /\ result.type = "Program"
    /\ Len(result.body) = 1
    /\ result.body[1].test.name = "a"
    /\ result.body[1].alternate.type = "IfStatement"
    /\ result.body[1].alternate.test.name = "b"
    /\ Len(result.body[1].alternate.consequent.body) = 1
    /\ result.body[1].alternate.alternate.type = "IfStatement"
    /\ result.body[1].alternate.alternate.test.name = "c"
    /\ result.body[1].alternate.alternate.alternate.type = "BlockStatement"
    /\ Len(result.body[1].alternate.alternate.alternate.body) = 2

\* ------------------------------------------------------------------------
\* Properties of the token stream
\* ------------------------------------------------------------------------
\* the offset of the first line break of text at or after offset i, or the
\* length of text
FirstLineBreak(text, i) ==
    IF \E j \in i..(Len(text) - 1) : text[j + 1] = "\n"
    THEN CHOOSE j \in i..(Len(text) - 1) :
            text[j + 1] = "\n" /\ \A k \in i..(j - 1) : text[k + 1] # "\n"
    ELSE Len(text)

\* `*/` is at offset j of text
ClosesComment(text, j) == j + 1 < Len(text) /\ text[j + 1] = "*" /\ text[j + 2] = "/"

\* the offset after the first `*/` of text at or after offset i, or the
\* length of text if the comment is not closed
AfterComment(text, i) ==
    IF \E j \in i..(Len(text) - 1) : ClosesComment(text, j)
    THEN 2 + CHOOSE j \in i..(Len(text) - 1) :
                 ClosesComment(text, j) /\ \A k \in i..(j - 1) : ~ClosesComment(text, k)
    ELSE Len(text)

\* the characters of text from offset i to offset e are whitespace, line
\* comments up to their line break and block comments up to their `*/`
RECURSIVE Blank(_, _, _)
Blank(text, i, e) ==
    IF i >= e THEN i = e
    ELSE IF IsWhitespace(text[i + 1]) THEN Blank(text, i + 1, e)
    ELSE IF text[i + 1] = "/" /\ CharAt(text, i + 1) = "/"
    THEN Blank(text, FirstLineBreak(text, i), e)
    ELSE IF text[i + 1] = "/" /\ CharAt(text, i + 1) = "*"
    THEN Blank(text, AfterComment(text, i + 2), e)
    ELSE FALSE

\* tokenize() has thrown: parse() was left before its loop
LexThrew == ParseEnded /\ result.type = "Thrown" /\ IsNull(lastStmt)

\* tokenize() has returned the tokens of a text that is not blank
LexReturned == parseCalls > 0 /\ ~IsBlank(parseArg) /\ ~LexThrew

\* offset k of the text begins the token of index n, or ends the text
TokenStart(n) == IF n <= Len(tokens) THEN tokens[n].start ELSE Len(input)

\* C28: tokenize() ends on every text: every turn of its loop moves on or
\* throws.  It throws only `Unterminated string`, at a quote; otherwise the
\* tokens are in source order, each with 0 <= start < end <= text.length
\* and none before the end of the one before it, the characters before,
\* between and after them are whitespace and comments, and the value of a
\* token is text.slice(start, end), but `and` for `&&` and `or` for `||`.
C28_TokenStream ==
    /\ parseCalls > 0
       => \A c \in 0..(Len(parseArg) - 1) :
             \/ ~IsNull(LexStep(parseArg, c).exc)
             \/ LexStep(parseArg, c).next > c
    /\ LexThrew
       => /\ result.exc.text = "Unterminated string"
          /\ parseArg[result.exc.at + 1] \in {"\"", "'"}
    /\ LexReturned
       => /\ input = parseArg
          /\ \A n \in 1..Len(tokens) :
                /\ 0 <= tokens[n].start
                /\ tokens[n].start < tokens[n].end
                /\ tokens[n].end <= Len(input)
                /\ tokens[n].value =
                      (IF Slice(input, tokens[n].start, tokens[n].end) = <<"&", "&">>
                       THEN "and"
                       ELSE IF Slice(input, tokens[n].start, tokens[n].end) = <<"|", "|">>
                       THEN "or"
                       ELSE StringOf(Slice(input, tokens[n].start, tokens[n].end)))
          /\ \A n \in 1..(Len(tokens) + 1) :
                /\ (IF n = 1 THEN 0 ELSE tokens[n - 1].end) <= TokenStart(n)
                /\ Blank(input, IF n = 1 THEN 0 ELSE tokens[n - 1].end, TokenStart(n))

\* `a/*` and a line break: one token, and an open comment up to the end
\* of the text
C28_Witness ==
    /\ LexReturned
    /\ parseArg = <<"a", "/", "*", "\n">>
    /\ Len(tokens) = 1
    /\ tokens[1] = Token("IDENTIFIER", "a", 0, 1)

\* ------------------------------------------------------------------------
\* Properties of the debounced validation
\* ------------------------------------------------------------------------
\* the pending validation timers of a URI
PendingTimers(u) == {t \in timers : t.uri = u}

\* validationDelays has an entry for exactly the URIs with a pending timer,
\* and the entry is that timer
TimersMatchDelays ==
    \A u \in URIs :
       /\ Cardinality(PendingTimers(u)) <= 1
       /\ MapHas(validationDelays, u) <=> PendingTimers(u) # {}
       /\ \A t \in PendingTimers(u) : validationDelays[u] = t.id

\* every burst of changes of a URI has its one timer: it has made its one
\* validateTextDocument call, or it is pending, or onDidClose has cleared it
OneCallPerBurst ==
    \A u \in URIs :
       bursts[u] = timerCalls[u] + cancelledByClose[u] + Cardinality(PendingTimers(u))

\* a timer runs when VALIDATION_DELAY_MS have passed since the last change of
\* its own URI, whatever has happened to the other URIs meanwhile, and leaves
\* validationDelays without an entry for its URI until the next change
FiredAfterLastChange ==
    /\ lastFire # Null => lastFire.since = VALIDATION_DELAY_TICKS
    /\ \A t \in timers :
          t.remaining = VALIDATION_DELAY_TICKS - sinceChange[t.uri]

\* C29: at every moment each URI has at most one pending validation timer,
\* the one validationDelays holds; the changes of a burst (consecutive changes
\* of one URI less than VALIDATION_DELAY_MS apart) share one timer, which
\* makes exactly one validateTextDocument call, VALIDATION_DELAY_MS after the
\* last change of the burst, unless onDidClose clears it first; changes of
\* another URI neither cancel nor delay it; and every entry of
\* validationDelays is gone in the end, none being left by a timer that ran
C29_DebouncedValidation ==
    /\ [](TimersMatchDelays /\ OneCallPerBurst /\ FiredAfterLastChange)
    /\ \A u \in URIs : MapHas(validationDelays, u) ~> ~MapHas(validationDelays, u)

\* a burst of two changes of a.nt has made its one call while the timer of
\* b.nt, set during that burst, is still pending
C29_Witness ==
    /\ bursts["a.nt"] = 1
    /\ timerCalls["a.nt"] = 1
    /\ changes = 3
    /\ closes = 0
    /\ ~MapHas(validationDelays, "a.nt")
    /\ MapHas(validationDelays, "b.nt")

\* ------------------------------------------------------------------------
\* Properties of closed documents
\* ------------------------------------------------------------------------
\* the Maps of the server have no entry for the URI and no timer is pending
\* for it
NoEntryFor(u) ==
    /\ ~MapHas(documentSettings, u)
    /\ u \notin parseCache
    /\ ~MapHas(validationDelays, u)
    /\ PendingTimers(u) = {}

\* C30: a document that is not open has no entry in documentSettings,
\* parseCache and validationDelays and no pending validation timer, and no
\* diagnostics have been published for it while it was not open
C30_ClosedDocumentQuiet ==
    \A u \in URIs \ openDocuments : NoEntryFor(u) /\ u \notin publishedClosed

\* ------------------------------------------------------------------------
\* Specifications
\* ------------------------------------------------------------------------
vars == <<checkerVars, compatVars, parserVars, serverVars>>

\* a new TypeChecker, a new NeutronParser and the server after onInitialize
Init == CheckInit /\ CompatIdle /\ ParserInit /\ ServerInit

\* one check() call on a new TypeChecker
SpecCheck == Init /\ [][CheckNext]_vars

\* several check() calls on one TypeChecker
SpecReuse == Init /\ [][ReuseNext]_vars

\* isCompatibleType on every pair of type names
CompatNext ==
    /\ isCompatibleTypeCall \/ checkCompatDocument
    /\ UNCHANGED <<checkerVars, parserVars, serverVars>>

\* a new TypeChecker and a pair of type names
InitCompat == CheckInit /\ CompatInit /\ ParserInit /\ ServerInit

SpecCompat == InitCompat /\ [][CompatNext]_vars

\* one parse() call on a new NeutronParser
ParseNext ==
    /\ parse(1, Texts(Snippets, MaxSnippets)) \/ parseIteration \/ parseReturn
    /\ UNCHANGED <<checkerVars, compatVars, serverVars>>

SpecParse == Init /\ [][ParseNext]_vars

\* several parse() calls on one NeutronParser
ParseReuseNext ==
    /\ parse(MaxParses, ReuseTexts) \/ parseIteration \/ parseReturn
    /\ UNCHANGED <<checkerVars, compatVars, serverVars>>

SpecParseReuse == Init /\ [][ParseReuseNext]_vars

\* one parse() call on a new NeutronParser, on a text of quotes, backslashes,
\* letters, blanks and semicolons
StringsNext ==
    /\ parse(1, Texts(StringPieces, MaxChars)) \/ parseIteration \/ parseReturn
    /\ UNCHANGED <<checkerVars, compatVars, serverVars>>

SpecStrings == Init /\ [][StringsNext]_vars

\* one parse() call on a new NeutronParser, on statements of several kinds
SpansNext ==
    /\ parse(1, Texts(SpanSnippets, MaxSnippets)) \/ parseIteration \/ parseReturn
    /\ UNCHANGED <<checkerVars, compatVars, serverVars>>

SpecSpans == Init /\ [][SpansNext]_vars

\* one parse() call on a new NeutronParser, then one check() call on a new
\* TypeChecker with the Program it returned
CheckParsedNext ==
    \/ /\ parse(1, Texts(CheckedSnippets \cup SpanSnippets, MaxSnippets)) \/ parseIteration \/ parseReturn
       /\ UNCHANGED <<checkerVars, compatVars, serverVars>>
    \/ /\ checkProgram \/ checkProgramNode \/ checkReturn
       /\ UNCHANGED <<compatVars, parserVars, serverVars>>

SpecCheckParsed == Init /\ [][CheckParsedNext]_vars

\* one parse() call on a new NeutronParser, on for statements
ForNext ==
    /\ parse(1, WellFormedFors) \/ parseIteration \/ parseReturn
    /\ UNCHANGED <<checkerVars, compatVars, serverVars>>

SpecFor == Init /\ [][ForNext]_vars

\* one parse() call on a new NeutronParser, on match statements
MatchNext ==
    /\ parse(1, WellFormedMatches) \/ parseIteration \/ parseReturn
    /\ UNCHANGED <<checkerVars, compatVars, serverVars>>

SpecMatch == Init /\ [][MatchNext]_vars

\* one parse() call on a new NeutronParser, on assignments of expressions
ExpressionNext ==
    /\ parse(1, ExpressionTexts) \/ parseIteration \/ parseReturn
    /\ UNCHANGED <<checkerVars, compatVars, serverVars>>

SpecExpression == Init /\ [][ExpressionNext]_vars

\* one parse() call on declarations initialized with `l op r`, then one
\* check() call with the Program it returned
InferNext ==
    \/ /\ parse(1, InferTexts) \/ parseIteration \/ parseReturn
       /\ UNCHANGED <<checkerVars, compatVars, serverVars>>
    \/ /\ checkProgram \/ checkProgramNode \/ checkReturn
       /\ UNCHANGED <<compatVars, parserVars, serverVars>>

SpecInfer == Init /\ [][InferNext]_vars

\* one parse() call on a new NeutronParser, on texts with minus signs
MinusNext ==
    /\ parse(1, Texts(MinusPieces, MaxChars)) \/ parseIteration \/ parseReturn
    /\ UNCHANGED <<checkerVars, compatVars, serverVars>>

SpecMinus == Init /\ [][MinusNext]_vars

\* one parse() call on a statement inside an enclosing construct, then one
\* check() call with the Program it returned
VisitsNext ==
    \/ /\ parse(1, VisitTexts) \/ parseIteration \/ parseReturn
       /\ UNCHANGED <<checkerVars, compatVars, serverVars>>
    \/ /\ checkProgram \/ checkProgramNode \/ checkReturn
       /\ UNCHANGED <<compatVars, parserVars, serverVars>>

SpecVisits == Init /\ [][VisitsNext]_vars

\* one parse() call on declarations and assignments of nil and of other
\* expressions, then one check() call with the Program it returned
NilNext ==
    \/ /\ parse(1, NilTexts) \/ parseIteration \/ parseReturn
       /\ UNCHANGED <<checkerVars, compatVars, serverVars>>
    \/ /\ checkProgram \/ checkProgramNode \/ checkReturn
       /\ UNCHANGED <<compatVars, parserVars, serverVars>>

SpecNil == Init /\ [][NilNext]_vars

\* one parse() call on a new NeutronParser, on texts with throw statements
ThrowNext ==
    /\ parse(1, Texts(ThrowSnippets, MaxSnippets)) \/ parseIteration \/ parseReturn
    /\ UNCHANGED <<checkerVars, compatVars, serverVars>>

SpecThrow == Init /\ [][ThrowNext]_vars

\* one parse() call on a new NeutronParser, on else-if chains
ChainNext ==
    /\ parse(1, ChainTexts) \/ parseIteration \/ parseReturn
    /\ UNCHANGED <<checkerVars, compatVars, serverVars>>

SpecChain == Init /\ [][ChainNext]_vars

\* one parse() call on a new NeutronParser, on texts with comments, strings
\* and operators
LexNext ==
    /\ parse(1, Texts(LexPieces, MaxChars)) \/ parseIteration \/ parseReturn
    /\ UNCHANGED <<checkerVars, compatVars, serverVars>>

SpecLex == Init /\ [][LexNext]_vars

\* the server: documents are opened, changed and closed, the configuration
\* changes, timers expire and the client answers configuration requests
ServerNext ==
    /\ \/ onInitialize
       \/ didOpen(MaxMessages)
       \/ didChange(MaxMessages)
       \/ timeout
       \/ configurationResponse
       \/ onDidClose(MaxMessages)
       \/ onDidChangeConfiguration(MaxMessages)
       \/ tick
    /\ UNCHANGED <<checkerVars, compatVars, parserVars>>

SpecServer == Init /\ [][ServerNext]_vars

\* the clock moves on, expired timers run and the client answers
SpecServerFair ==
    /\ Init
    /\ [][ServerNext]_vars
    /\ WF_serverVars(tick)
    /\ WF_serverVars(timeout)
    /\ WF_serverVars(configurationResponse)

====
